---- MODULE Spec2Model ----
(***************************************************************************)
(* Resilience layer of Archon: the circuit breaker and its registry        *)
(* (tools/circuit_breaker.py), the tiered cache (tools/advanced_cache.py)  *)
(* and the region health checker                                           *)
(* (infra/modules/multi_region/health_checker.py).                         *)
(*                                                                         *)
(* Time is time.time() in whole units.  A breaker instance is a record in  *)
(* `heap`, addressed by an instance id; `_circuit_breakers` maps a name to *)
(* the id of its instance.                                                 *)
(***************************************************************************)
EXTENDS Integers, Sequences, FiniteSets, TLC

\* ------------------------------------------------------------------ bounds
MaxThreshold == 2        \* failure_threshold and success_threshold range over 1..MaxThreshold
MaxRecoveryTimeout == 2  \* recovery_timeout ranges over 1..MaxRecoveryTimeout
MaxCallTimeout == 1      \* config.timeout ranges over 1..MaxCallTimeout
MaxOpDuration == 2       \* the wrapped operation takes 0..MaxOpDuration time units
MaxCacheTime == 2        \* the clock bound of the cache specification
MaxMemoryItems == 2      \* max_memory_items ranges up to MaxMemoryItems
MaxTtl == 1              \* the positive ttl_seconds passed to set
MaxHits == 1             \* a get that would take an item's hits past this is not made
MaxTime == 4             \* the clock stops advancing here
MaxRecords == 3          \* determine_active_region is passed at most MaxRecords records
MaxFailoverThreshold == 2 \* failover_threshold ranges over 1..MaxFailoverThreshold
MaxFailureCount == 3     \* a call that would take failure_count past this is not made
MaxCooldowns == 1        \* the manager's clock runs for MaxCooldowns cooldown periods
MaxThreads == 2          \* the threads that make overlapping calls
MaxThreadCalls == 2      \* each thread makes at most MaxThreadCalls calls
MaxThreadTime == 1       \* the clock bound of the specifications with threads
MaxFailTime == 2         \* operations fail only in calls that end by MaxFailTime

\* --------------------------------------------------------------- constants
None == -1               \* Python's None in a time-valued field (times are >= 0)

DefaultFailureThreshold == 5
DefaultRecoveryTimeout == 60
DefaultSuccessThreshold == 3
DefaultTimeout == 30
DefaultTtlSeconds == 3600
DefaultMaxMemoryItems == 1000

VARIABLES
    now,               \* time.time()
    _circuit_breakers, \* the registry: name -> instance id
    heap,              \* instance id -> CircuitBreaker object
    lastCall,          \* observation of the most recent CircuitBreaker.call
    lastGet,           \* observation of the most recent get_circuit_breaker
    hist,              \* per instance: history of the calls made on it
    regHist,           \* per name: what get_circuit_breaker has returned so far
    cacheConfig,       \* AdvancedCache: the backend chain and the CacheConfig fields
    cache,             \* what each backend stores
    cacheObs,          \* observation of the most recent cache operation
    written,           \* per key: the latest set that returned true, until a delete
    config_table,      \* the DynamoDB table CONFIG_TABLE: region_name -> item
    hcObs,             \* the most recent call into the health checker
    manager,           \* the MultiRegionManager _multi_region_manager
    mgrObs,            \* observation of the most recent call on the manager
    threads            \* per thread of concurrent calls: where it is and its locals

breakerVars == <<_circuit_breakers, heap, lastCall, lastGet, hist, regHist>>
cacheVars == <<cacheConfig, cache, cacheObs, written>>
healthVars == <<config_table, hcObs>>
managerVars == <<manager, mgrObs>>
vars == <<now, _circuit_breakers, heap, lastCall, lastGet, hist, regHist,
          cacheConfig, cache, cacheObs, written, config_table, hcObs,
          manager, mgrObs, threads>>

\* ------------------------------------------------------- exception classes
\* What a wrapped operation can raise: two subclasses of Exception.
Raisable == {"ConnectionError", "ValueError"}
ExpectedExceptions == {"Exception", "ConnectionError"}

IsSubclass(e, c) ==
    \/ e = c
    \/ c = "Exception" /\ e \in {"ConnectionError", "ValueError"}

\* `except self.config.expected_exception` catches e
Classified(e, config) == IsSubclass(e, config.expected_exception)

\* ------------------------------------------------------------------ config
Configs ==
    [failure_threshold : 1..MaxThreshold,
     recovery_timeout : 1..MaxRecoveryTimeout,
     success_threshold : 1..MaxThreshold,
     timeout : 1..MaxCallTimeout,
     expected_exception : ExpectedExceptions]

\* CircuitBreakerConfig() with every field defaulted
CircuitBreakerConfig ==
    [failure_threshold |-> DefaultFailureThreshold,
     recovery_timeout |-> DefaultRecoveryTimeout,
     success_threshold |-> DefaultSuccessThreshold,
     timeout |-> DefaultTimeout,
     expected_exception |-> "Exception"]

\* CircuitBreaker.__init__ ; the optional argument config is {} (None) or {c}
CircuitBreaker(name, config) ==
    [name |-> name,
     config |-> IF config = {} THEN CircuitBreakerConfig ELSE CHOOSE c \in config : TRUE,
     state |-> "CLOSED",
     failure_count |-> 0,
     success_count |-> 0,
     last_failure_time |-> None,
     last_success_time |-> None]

\* ------------------------------------------------------ breaker operations
\* variant of the definition below: the reset is attempted one time unit early
ShouldAttemptResetEarly(b, t) ==
    IF b.last_failure_time = None THEN TRUE
    ELSE t - b.last_failure_time >= b.config.recovery_timeout - 1

\* variant of ShouldAttemptReset: the reset is attempted only after the timeout
ShouldAttemptResetAfter(b, t) ==
    IF b.last_failure_time = None THEN TRUE
    ELSE t - b.last_failure_time > b.config.recovery_timeout

\* CircuitBreaker._should_attempt_reset at time t
ShouldAttemptReset(b, t) ==
    IF b.last_failure_time = None THEN TRUE
    ELSE t - b.last_failure_time >= b.config.recovery_timeout

\* variant of OnSuccess: a success outside HALF_OPEN keeps failure_count
OnSuccessKeepFailures(b, t) ==
    LET b1 == [b EXCEPT !.last_success_time = t] IN
    IF b1.state = "HALF_OPEN"
    THEN LET b2 == [b1 EXCEPT !.success_count = @ + 1] IN
         IF b2.success_count >= b2.config.success_threshold
         THEN [b2 EXCEPT !.state = "CLOSED", !.failure_count = 0, !.success_count = 0]
         ELSE b2
    ELSE b1

\* variant of OnSuccess: closing keeps the successes counted so far
OnSuccessCloseKeepsCount(b, t) ==
    LET b1 == [b EXCEPT !.last_success_time = t] IN
    IF b1.state = "HALF_OPEN"
    THEN LET b2 == [b1 EXCEPT !.success_count = @ + 1] IN
         IF b2.success_count >= b2.config.success_threshold
         THEN [b2 EXCEPT !.state = "CLOSED", !.failure_count = 0]
         ELSE b2
    ELSE [b1 EXCEPT !.failure_count = 0]

\* variant of the definition below: a success in HALF_OPEN resets failure_count
OnSuccessResetsInHalfOpen(b, t) ==
    LET b1 == [b EXCEPT !.last_success_time = t, !.failure_count = 0] IN
    IF b1.state = "HALF_OPEN"
    THEN LET b2 == [b1 EXCEPT !.success_count = @ + 1] IN
         IF b2.success_count >= b2.config.success_threshold
         THEN [b2 EXCEPT !.state = "CLOSED", !.success_count = 0]
         ELSE b2
    ELSE b1

\* CircuitBreaker._on_success at time t
OnSuccess(b, t) ==
    LET b1 == [b EXCEPT !.last_success_time = t] IN
    IF b1.state = "HALF_OPEN"
    THEN LET b2 == [b1 EXCEPT !.success_count = @ + 1] IN
         IF b2.success_count >= b2.config.success_threshold
         THEN [b2 EXCEPT !.state = "CLOSED", !.failure_count = 0, !.success_count = 0]
         ELSE b2
    ELSE [b1 EXCEPT !.failure_count = 0]

\* variant of the definition below: the breaker opens only above the threshold
OnFailureLate(b, t) ==
    LET b1 == [b EXCEPT !.failure_count = @ + 1, !.last_failure_time = t] IN
    IF b1.failure_count > b1.config.failure_threshold
    THEN [b1 EXCEPT !.state = "OPEN"]
    ELSE b1

\* CircuitBreaker._on_failure at time t
OnFailure(b, t) ==
    LET b1 == [b EXCEPT !.failure_count = @ + 1, !.last_failure_time = t] IN
    IF b1.failure_count >= b1.config.failure_threshold
    THEN [b1 EXCEPT !.state = "OPEN"]
    ELSE b1

\* CircuitBreaker.call, lines 44-49: is the call rejected at time t
Rejected(b, t) == b.state = "OPEN" /\ ~ShouldAttemptReset(b, t)

\* variant of Enter: no transition to HALF_OPEN before func runs
EnterStayOpen(b, t) == b

\* variant of the definition below: the move to HALF_OPEN is made from any state
EnterFromAnyState(b, t) ==
    IF ShouldAttemptReset(b, t)
    THEN [b EXCEPT !.state = "HALF_OPEN"]
    ELSE b

\* CircuitBreaker.call, lines 44-47: the breaker when func is invoked
Enter(b, t) ==
    IF b.state = "OPEN" /\ ShouldAttemptReset(b, t)
    THEN [b EXCEPT !.state = "HALF_OPEN"]
    ELSE b

\* variant of the definition below: every raised failure counts
AfterOperationCountAll(b, result, exc, t) ==
    IF result = "ok" THEN OnSuccess(b, t) ELSE OnFailure(b, t)

\* CircuitBreaker.call, lines 51-61: func returned ("ok") or raised exc at time t
AfterOperation(b, result, exc, t) ==
    IF result = "ok" THEN OnSuccess(b, t)
    ELSE IF Classified(exc, b.config) THEN OnFailure(b, t)
    ELSE b

\* ------------------------------------------------------------ observations
\* The most recent call: the instance, how func ended, what call raised, how
\* often func was invoked, the breaker's state when func was invoked, when the
\* call started, how long func ran, and the breaker before the call.  The
\* breaker after the call is heap[lastCall.id]: only call changes an instance.
NoCall ==
    [id |-> 0, result |-> "none", raised |-> "none", invoked |-> 0,
     atInvoke |-> "none", start |-> 0, duration |-> 0,
     pre |-> CircuitBreaker("none", {})]

NoGet == [name |-> "none", config |-> {}, ret |-> 0, existed |-> FALSE]

\* History of one instance, kept for the properties below (ft is the instance's
\* failure_threshold):
\*   run      classified failures raised since the breaker was last seen CLOSED
\*            with failure_count 0, no success since (None: no such base point,
\*            or more than ft of them)
\*   cur      classified failures raised since the last successful call, up to ft
\*   maxRun   the largest value cur has had
\*   probeOk  successful calls since the breaker last entered HALF_OPEN, up to
\*            and including the call that left HALF_OPEN (0 otherwise)
NewHist == [run |-> 0, cur |-> 0, maxRun |-> 0, probeOk |-> 0]

Max(a, b) == IF a >= b THEN a ELSE b
Min(a, b) == IF a <= b THEN a ELSE b

\* b is the breaker before the call, b1 when func is invoked, b2 after the call
HistAfter(h, b, b1, b2, result, exc) ==
    LET ft == b1.config.failure_threshold
        h1 == IF b1.state # "HALF_OPEN" \/ b.state # "HALF_OPEN"
              THEN [h EXCEPT !.probeOk = 0] ELSE h
    IN
    IF result = "ok"
    THEN [h1 EXCEPT !.cur = 0,
                    !.probeOk = IF b1.state = "HALF_OPEN" THEN @ + 1 ELSE 0,
                    !.run = IF b2.state = "CLOSED" /\ b2.failure_count = 0
                            THEN 0 ELSE None]
    ELSE IF Classified(exc, b1.config)
    THEN [h1 EXCEPT !.cur = Min(@ + 1, ft),
                    !.maxRun = Max(@, Min(h1.cur + 1, ft)),
                    !.run = IF @ = None \/ @ >= ft THEN None ELSE @ + 1]
    ELSE h1

\* ----------------------------------------------------------------- actions
\* time.time() advances
Tick(limit) ==
    /\ now < limit
    /\ now' = now + 1
    /\ UNCHANGED <<breakerVars, cacheVars, healthVars, managerVars, threads>>

\* variant of the definition below: every access constructs an instance
MustCreateAlways(name) == TRUE

\* get_circuit_breaker, line 113: `name not in _circuit_breakers`
MustCreate(name) == name \notin DOMAIN _circuit_breakers

\* get_circuit_breaker(name, config); config is {} (None) or {c}
GetCircuitBreaker(name, config) ==
    LET create == MustCreate(name)
        id == IF create THEN Cardinality(DOMAIN heap) + 1 ELSE _circuit_breakers[name]
        obj == CircuitBreaker(name, config)
    IN
    /\ heap' = IF create THEN (id :> obj) @@ heap ELSE heap
    /\ _circuit_breakers' = IF create THEN (name :> id) @@ _circuit_breakers
                            ELSE _circuit_breakers
    /\ hist' = IF create THEN (id :> NewHist) @@ hist ELSE hist
    /\ lastGet' = [name |-> name, config |-> config, ret |-> id,
                   existed |-> name \in DOMAIN _circuit_breakers]
    /\ regHist' =
          IF name \in DOMAIN regHist
          THEN [regHist EXCEPT ![name].returned = @ \cup {id}]
          ELSE (name :> [returned |-> {id}, firstArg |-> config]) @@ regHist
    /\ UNCHANGED <<now, lastCall, cacheVars, healthVars, managerVars, threads>>

\* CircuitBreaker.call(func) on instance i: func runs for d time units and then
\* returns (result = "ok") or raises exc (result = "raise")
Call(i, result, exc, d, limit) ==
    /\ i \in DOMAIN heap
    /\ LET b == heap[i] IN
       IF Rejected(b, now)
       THEN /\ lastCall' = [id |-> i, result |-> "rejected",
                            raised |-> "CircuitBreakerOpenException",
                            invoked |-> 0, atInvoke |-> "none",
                            start |-> now, duration |-> 0, pre |-> b]
            /\ UNCHANGED <<now, _circuit_breakers, heap, lastGet, hist, regHist, cacheVars, healthVars, managerVars, threads>>
       ELSE LET b1 == Enter(b, now)
                t == now + d
                b2 == AfterOperation(b1, result, exc, t)
            IN
            /\ t <= limit
            /\ now' = t
            /\ heap' = [heap EXCEPT ![i] = b2]
            /\ lastCall' = [id |-> i, result |-> result,
                            raised |-> IF result = "ok" THEN "none" ELSE exc,
                            invoked |-> 1, atInvoke |-> b1.state,
                            start |-> now, duration |-> d, pre |-> b]
            /\ hist' = [hist EXCEPT ![i] = HistAfter(@, b, b1, b2, result, exc)]
            /\ UNCHANGED <<_circuit_breakers, lastGet, regHist, cacheVars, healthVars, managerVars, threads>>

\* ================================================================== cache
\* -------------------------------------------------------------- Python values
\* A text is the content of a Python str: <<"raw", s>> is the characters s and
\* <<"quoted", s>> is s between double quotes.  A value is <<type, text>>: an int
\* carries its decimal digits, a str its content, None the text null.
PyInt(digits) == <<"int", <<"raw", digits>>>>
PyStr(text) == <<"str", text>>
PyNone == <<"NoneType", <<"raw", "null">>>>

NumberTexts == {"42"}

\* json.dumps of a value: the text it produces
JsonDumps(v) ==
    IF v[1] = "str" THEN <<"quoted", v[2][2]>> ELSE v[2]

\* json.loads accepts the text (it raises JSONDecodeError otherwise)
JsonParses(text) ==
    text[1] = "quoted" \/ text[2] \in NumberTexts \cup {"null"}

\* json.loads of a text it accepts
JsonLoads(text) ==
    IF text[1] = "quoted" THEN PyStr(<<"raw", text[2]>>)
    ELSE IF text[2] = "null" THEN PyNone
    ELSE PyInt(text[2])

\* hashlib.md5(...).hexdigest(): a token that identifies the hashed string
\* (collisions are left out)
Md5(keyString) == ToString(keyString)

\* ------------------------------------------------------------------ CacheItem
NewCacheItem(key, value, created_at, expires_at) ==
    [key |-> key, value |-> value, created_at |-> created_at,
     expires_at |-> expires_at, hits |-> 0]

\* CacheItem.is_expired at time t
IsExpired(item, t) == t > item.expires_at

\* CacheItem.to_dict: a str value is stored as it is, any other value as json
ToDict(item) ==
    [key |-> item.key,
     value |-> IF item.value[1] = "str" THEN item.value[2] ELSE JsonDumps(item.value),
     created_at |-> item.created_at,
     expires_at |-> item.expires_at,
     hits |-> item.hits]

\* CacheItem.from_dict: the stored text is parsed as json when it parses
FromDict(data) ==
    [key |-> data.key,
     value |-> IF JsonParses(data.value) THEN JsonLoads(data.value)
               ELSE PyStr(data.value),
     created_at |-> data.created_at,
     expires_at |-> data.expires_at,
     hits |-> data.hits]

\* ------------------------------------------------------------------- backends
\* A backend's get returns <<>> (None) or <<item>>, with the stores after it.
NoStores == [redis |-> <<>>, dynamodb |-> <<>>, _cache |-> <<>>, _access_times |-> <<>>]

\* RedisCache.get: a key set with setex is gone once its time to live is over
RedisGet(st, key, t) ==
    IF key \in DOMAIN st.redis
       /\ (st.redis[key].expire = None \/ t < st.redis[key].expire)
    THEN [item |-> <<FromDict(st.redis[key].data[2])>>, st |-> st]
    ELSE [item |-> <<>>, st |-> st]

\* RedisCache.set: json.dumps(item.to_dict()), setex when int(expires_at - now) > 0
RedisSet(st, key, item, t) ==
    LET data == <<"json", ToDict(item)>>
        ttl == item.expires_at - t
    IN [st EXCEPT !.redis =
          (key :> [data |-> data, expire |-> IF ttl > 0 THEN t + ttl ELSE None]) @@ @]

\* RedisCache.delete
RedisDelete(st, key) ==
    [st EXCEPT !.redis = [k \in DOMAIN @ \ {key} |-> @[k]]]

\* DynamoDBCache.get
DynamoGet(st, key, t) ==
    IF key \in DOMAIN st.dynamodb
    THEN [item |-> <<FromDict(st.dynamodb[key])>>, st |-> st]
    ELSE [item |-> <<>>, st |-> st]

\* DynamoDBCache.set: item.to_dict() with cache_key and ttl = int(expires_at)
DynamoSet(st, key, item, t) ==
    LET d == ToDict(item)
        item_data == [key |-> d.key, value |-> d.value, created_at |-> d.created_at,
                      expires_at |-> d.expires_at, hits |-> d.hits,
                      cache_key |-> key, ttl |-> item.expires_at]
    IN [st EXCEPT !.dynamodb = (key :> item_data) @@ @]

\* DynamoDBCache.delete
DynamoDelete(st, key) ==
    [st EXCEPT !.dynamodb = [k \in DOMAIN @ \ {key} |-> @[k]]]

\* The dict _access_times, in insertion order: a sequence of <<key, time>>
DictHas(d, k) == \E i \in 1..Len(d) : d[i][1] = k
DictPut(d, k, v) ==
    IF DictHas(d, k) THEN [i \in 1..Len(d) |-> IF d[i][1] = k THEN <<k, v>> ELSE d[i]]
    ELSE Append(d, <<k, v>>)
DictDel(d, k) == SelectSeq(d, LAMBDA e : e[1] # k)
\* min(d.keys(), key=lambda k: d[k]): the first key with the smallest value
DictMinKey(d) ==
    LET i == CHOOSE i \in 1..Len(d) :
                 /\ \A j \in 1..Len(d) : d[i][2] <= d[j][2]
                 /\ \A j \in 1..(i - 1) : d[j][2] > d[i][2]
    IN d[i][1]

\* variant of the definition below: a get also removes every other expired entry
MemoryGetPurging(st, key, t) ==
    LET live == {k \in DOMAIN st._cache : k = key \/ ~IsExpired(st._cache[k], t)}
        st1 == [st EXCEPT !._cache = [k \in live |-> @[k]],
                          !._access_times = SelectSeq(@, LAMBDA e : e[1] \in live)]
    IN
    IF key \in DOMAIN st1._cache
    THEN LET item == st1._cache[key] IN
         IF ~IsExpired(item, t)
         THEN LET hit == [item EXCEPT !.hits = @ + 1] IN
              [item |-> <<hit>>,
               st |-> [st1 EXCEPT !._cache = [@ EXCEPT ![key] = hit],
                                  !._access_times = DictPut(@, key, t)]]
         ELSE [item |-> <<>>,
               st |-> [st1 EXCEPT !._cache = [k \in DOMAIN @ \ {key} |-> @[k]],
                                  !._access_times = DictDel(@, key)]]
    ELSE [item |-> <<>>, st |-> st1]

\* MemoryCache.get
MemoryGet(st, key, t) ==
    IF key \in DOMAIN st._cache
    THEN LET item == st._cache[key] IN
         IF ~IsExpired(item, t)
         THEN LET hit == [item EXCEPT !.hits = @ + 1] IN
              [item |-> <<hit>>,
               st |-> [st EXCEPT !._cache = [@ EXCEPT ![key] = hit],
                                 !._access_times = DictPut(@, key, t)]]
         ELSE [item |-> <<>>,
               st |-> [st EXCEPT !._cache = [k \in DOMAIN @ \ {key} |-> @[k]],
                                 !._access_times = DictDel(@, key)]]
    ELSE [item |-> <<>>, st |-> st]

\* MemoryCache._evict_oldest
EvictOldest(st) ==
    IF st._access_times = <<>> THEN st
    ELSE LET oldest_key == DictMinKey(st._access_times) IN
         [st EXCEPT !._cache = [k \in DOMAIN @ \ {oldest_key} |-> @[k]],
                    !._access_times = DictDel(@, oldest_key)]

\* MemoryCache.set
MemorySet(st, key, item, t, max_items) ==
    LET st1 == IF Cardinality(DOMAIN st._cache) >= max_items /\ key \notin DOMAIN st._cache
               THEN EvictOldest(st) ELSE st
    IN [st1 EXCEPT !._cache = (key :> item) @@ @,
                   !._access_times = DictPut(@, key, t)]

\* MemoryCache.delete
MemoryDelete(st, key) ==
    [st EXCEPT !._cache = [k \in DOMAIN @ \ {key} |-> @[k]],
               !._access_times = DictDel(@, key)]

BackendGet(b, st, key, t) ==
    IF b = "redis" THEN RedisGet(st, key, t)
    ELSE IF b = "dynamodb" THEN DynamoGet(st, key, t)
    ELSE MemoryGet(st, key, t)

BackendSet(b, st, key, item, t, max_items) ==
    IF b = "redis" THEN RedisSet(st, key, item, t)
    ELSE IF b = "dynamodb" THEN DynamoSet(st, key, item, t)
    ELSE MemorySet(st, key, item, t, max_items)

BackendDelete(b, st, key) ==
    IF b = "redis" THEN RedisDelete(st, key)
    ELSE IF b = "dynamodb" THEN DynamoDelete(st, key)
    ELSE MemoryDelete(st, key)

\* -------------------------------------------------------------- AdvancedCache
\* AdvancedCache._initialize_backends: redis when configured and reachable,
\* dynamodb unless its client cannot be made, memory always
Chains ==
    {<<"redis", "dynamodb", "memory">>, <<"dynamodb", "memory">>,
     <<"redis", "memory">>, <<"memory">>}

\* AdvancedCache._generate_key (no keyword arguments): prefix:namespace:hash,
\* as a sequence of tokens; a namespace is a sequence of tokens itself
GenerateKey(cfg, namespace, args) ==
    LET key_string == <<namespace, [i \in 1..Len(args) |-> JsonDumps(args[i])]>>
    IN <<cfg.key_prefix, ":">> \o namespace \o <<":", Md5(key_string)>>

\* variant of the definition below: an item is returned whether expired or not
IsHitEvenExpired(item, t) == item # <<>>

\* AdvancedCache.get, line 277: `if item and not item.is_expired()`; item is
\* <<>> (None) or <<item>>
IsHit(item, t) == item # <<>> /\ ~IsExpired(item[1], t)

\* variant of the definition below: an error of one backend ends the probing
AfterGetErrorStop(i, chain) == Len(chain) + 1

\* AdvancedCache.get, lines 281-283: after an error of backend i the loop
\* continues with the next backend
AfterGetError(i, chain) == i + 1

\* AdvancedCache.get, lines 274-285, from backend i of the chain on; the
\* backends in faults raise
RECURSIVE GetFrom(_, _, _, _, _, _)
GetFrom(i, chain, st, key, t, faults) ==
    IF i > Len(chain) THEN [ret |-> PyNone, st |-> st, hit |-> 0]
    ELSE IF chain[i] \in faults
    THEN GetFrom(AfterGetError(i, chain), chain, st, key, t, faults)
    ELSE LET r == BackendGet(chain[i], st, key, t) IN
         IF IsHit(r.item, t)
         THEN [ret |-> r.item[1].value, st |-> r.st, hit |-> i]
         ELSE GetFrom(i + 1, chain, r.st, key, t, faults)

\* variant of the definition below: an error of one backend ends the writing
AfterSetErrorStop(i, chain) == Len(chain) + 1

\* AdvancedCache.set, lines 305-307: after an error of backend i the loop
\* continues with the next backend
AfterSetError(i, chain) == i + 1

\* AdvancedCache.set, lines 299-309, from backend i of the chain on; the
\* backends in faults raise or return False
RECURSIVE SetFrom(_, _, _, _, _, _, _, _)
SetFrom(i, chain, st, key, item, t, max_items, faults) ==
    IF i > Len(chain) THEN [success |-> FALSE, st |-> st]
    ELSE IF chain[i] \in faults
    THEN SetFrom(AfterSetError(i, chain), chain, st, key, item, t, max_items, faults)
    ELSE LET r == SetFrom(i + 1, chain, BackendSet(chain[i], st, key, item, t, max_items),
                          key, item, t, max_items, faults)
         IN [success |-> TRUE, st |-> r.st]

\* AdvancedCache.delete, lines 315-324
RECURSIVE DeleteFrom(_, _, _, _, _)
DeleteFrom(i, chain, st, key, faults) ==
    IF i > Len(chain) THEN [success |-> FALSE, st |-> st]
    ELSE IF chain[i] \in faults THEN DeleteFrom(i + 1, chain, st, key, faults)
    ELSE LET r == DeleteFrom(i + 1, chain, BackendDelete(chain[i], st, key), key, faults)
         IN [success |-> TRUE, st |-> r.st]

\* `ttl_seconds or self.config.ttl_seconds`
TtlOrDefault(ttl_seconds, cfg) ==
    IF ttl_seconds = None \/ ttl_seconds = 0 THEN cfg.ttl_seconds ELSE ttl_seconds

StartsWith(seq, prefix) ==
    Len(seq) >= Len(prefix) /\ SubSeq(seq, 1, Len(prefix)) = prefix

\* The most recent cache operation made at the present time: what it was, the
\* key it derived, what it returned (get: the value; set, delete: ok), the
\* backends that raised during it and, for a get, the position in the chain of
\* the backend whose item was returned (0: none)
NoCacheObs ==
    [op |-> "none", key |-> <<>>, ret |-> PyNone, ok |-> FALSE, faults |-> {}, hit |-> 0]

\* AdvancedCache.get(namespace, *args)
CacheGet(namespace, args, faults) ==
    LET key == GenerateKey(cacheConfig, namespace, args)
        r == GetFrom(1, cacheConfig.backends, cache, key, now, faults)
    IN
    /\ \A k \in DOMAIN r.st._cache : r.st._cache[k].hits <= MaxHits
    /\ cache' = r.st
    /\ cacheObs' = [op |-> "get", key |-> key, ret |-> r.ret, ok |-> r.hit # 0,
                    faults |-> faults, hit |-> r.hit]
    /\ UNCHANGED <<now, breakerVars, healthVars, managerVars, threads, cacheConfig, written>>

\* AdvancedCache.set(namespace, value, ttl_seconds, *args)
CacheSet(namespace, value, ttl_seconds, args, faults) ==
    LET key == GenerateKey(cacheConfig, namespace, args)
        ttl == TtlOrDefault(ttl_seconds, cacheConfig)
        item == NewCacheItem(key, value, now, now + ttl)
        r == SetFrom(1, cacheConfig.backends, cache, key, item, now,
                     cacheConfig.max_memory_items, faults)
    IN
    /\ cache' = r.st
    /\ cacheObs' = [op |-> "set", key |-> key, ret |-> PyNone, ok |-> r.success,
                    faults |-> faults, hit |-> 0]
    /\ written' = IF r.success
                  THEN (key :> [value |-> value, at |-> now, ttl |-> ttl_seconds,
                                clean |-> faults = {}])
                       @@ written
                  ELSE [k \in DOMAIN written \ {key} |-> written[k]]
    /\ UNCHANGED <<now, breakerVars, healthVars, managerVars, threads, cacheConfig>>

\* AdvancedCache.delete(namespace, *args)
CacheDelete(namespace, args, faults) ==
    LET key == GenerateKey(cacheConfig, namespace, args)
        r == DeleteFrom(1, cacheConfig.backends, cache, key, faults)
    IN
    /\ cache' = r.st
    /\ cacheObs' = [op |-> "delete", key |-> key, ret |-> PyNone, ok |-> r.success,
                    faults |-> faults, hit |-> 0]
    /\ written' = [k \in DOMAIN written \ {key} |-> written[k]]
    /\ UNCHANGED <<now, breakerVars, healthVars, managerVars, threads, cacheConfig>>

\* variant of the definition below: every backend is emptied
ClearAllEverywhere(st) == NoStores

\* AdvancedCache.clear, lines 336-337: `_cache.clear()` and
\* `_access_times.clear()` on the memory backend
ClearAll(st) == [st EXCEPT !._cache = <<>>, !._access_times = <<>>]

\* AdvancedCache.clear(namespace); <<>> is a namespace that is None or empty.
\* The memory backend is the last of the chain.
CacheClear(namespace) ==
    LET prefix == <<cacheConfig.key_prefix, ":">> \o namespace \o <<":">>
        keys_to_remove == {k \in DOMAIN cache._cache : StartsWith(k, prefix)}
    IN
    /\ cache' = IF namespace # <<>>
                THEN [cache EXCEPT
                        !._cache = [k \in DOMAIN @ \ keys_to_remove |-> @[k]],
                        !._access_times =
                            SelectSeq(@, LAMBDA e : e[1] \notin keys_to_remove)]
                ELSE ClearAll(cache)
    /\ cacheObs' = [op |-> "clear", key |-> namespace, ret |-> PyNone, ok |-> TRUE,
                    faults |-> {}, hit |-> 0]
    /\ UNCHANGED <<now, breakerVars, healthVars, managerVars, threads, cacheConfig, written>>

\* time.time() advances while the cache is in use
CacheTick ==
    /\ now < MaxCacheTime
    /\ now' = now + 1
    /\ cacheObs' = NoCacheObs
    /\ UNCHANGED <<breakerVars, healthVars, managerVars, threads, cacheConfig, cache, written>>

\* ========================================================= health checker
\* os.environ.get('PRIMARY_REGION', 'us-east-1') and
\* os.environ.get('SECONDARY_REGION', 'us-west-2')
PRIMARY_REGION == "us-east-1"
SECONDARY_REGION == "us-west-2"

\* A health status is a dict with the keys status and last_check and, when
\* present, response_time and error ("absent": the dict has no such key);
\* lambda_handler adds region_name and priority.
\* What the request of check_region_health can meet: a 200 response with a
\* json body, a 200 response whose body is not json, another status code, an
\* exception of requests.get
Probes == {"200 json", "200 no json", "503", "exception"}

\* check_region_health: response.json() raises on a body that is not json
CheckRegionHealth(probe, t) ==
    IF probe = "200 json"
    THEN [status |-> "healthy", last_check |-> t,
          response_time |-> "elapsed", error |-> "absent"]
    ELSE IF probe \in {"200 no json", "exception"}
    THEN [status |-> "unhealthy", last_check |-> t,
          response_time |-> "absent", error |-> "str(e)"]
    ELSE [status |-> "unhealthy", last_check |-> t,
          response_time |-> "absent", error |-> "HTTP 503"]

\* The outcomes of a put_item: done, botocore's ClientError, another exception
PutOutcomes == {"ok", "ClientError", "Exception"}

\* update_region_config: only ClientError is caught
UpdateRegionConfig(table, region_name, config, t, outcome) ==
    IF outcome = "ok"
    THEN [table |-> (region_name :>
                        [region_name |-> region_name,
                         status |-> config.status,
                         last_check |-> config.last_check,
                         response_time |-> IF config.response_time = "absent" THEN "0"
                                           ELSE config.response_time,
                         error |-> IF config.error = "absent" THEN "" ELSE config.error,
                         updated_at |-> t]) @@ table,
          raised |-> FALSE]
    ELSE [table |-> table, raised |-> outcome = "Exception"]

\* [c for c in configs if c.get('status') == 'healthy']
HealthyRegions(configs) == SelectSeq(configs, LAMBDA c : c.status = "healthy")

\* variant of the definition below: only the first element is looked at
PrimaryConfigIfFirst(configs) ==
    IF configs # <<>> /\ configs[1].region_name = PRIMARY_REGION
    THEN <<configs[1]>> ELSE <<>>

\* next((c for c in configs if c['region_name'] == PRIMARY_REGION), None):
\* <<>> (None) or <<c>>
PrimaryConfig(configs) ==
    LET found == SelectSeq(configs, LAMBDA c : c.region_name = PRIMARY_REGION)
    IN IF found = <<>> THEN <<>> ELSE <<found[1]>>

\* variant of the definition below: the other region is the fallback
NoHealthyFallbackSecondary == SECONDARY_REGION

\* determine_active_region, line 93: what is returned when no region is healthy
NoHealthyFallback == PRIMARY_REGION

\* determine_active_region
DetermineActiveRegion(configs) ==
    LET healthy_regions == HealthyRegions(configs) IN
    IF healthy_regions = <<>> THEN NoHealthyFallback
    ELSE IF PrimaryConfig(healthy_regions) # <<>> THEN PRIMARY_REGION
    ELSE healthy_regions[1].region_name

\* perform_failover_if_needed: what it returns, the table after it, and
\* whether it raised instead of returning
PerformFailoverIfNeeded(configs, table, t, outcome) ==
    LET primary_config == PrimaryConfig(configs)
        stay == [ret |-> FALSE, table |-> table, raised |-> FALSE]
    IN
    IF primary_config = <<>> \/ primary_config[1].status # "healthy"
    THEN IF Len(HealthyRegions(configs)) > 0
         THEN LET new_active == DetermineActiveRegion(configs) IN
              IF outcome = "ok"
              THEN [ret |-> TRUE,
                    table |-> ("active_region" :>
                                  [region_name |-> "active_region",
                                   status |-> "active",
                                   current_region |-> new_active,
                                   failover_time |-> t,
                                   updated_at |-> t]) @@ table,
                    raised |-> FALSE]
              ELSE [stay EXCEPT !.raised = outcome = "Exception"]
         ELSE stay
    ELSE stay

\* lambda_handler, lines 137-148: the regions it checks
HandlerRegions ==
    <<[name |-> PRIMARY_REGION, priority |-> 1],
      [name |-> SECONDARY_REGION, priority |-> 2]>>

\* lambda_handler, lines 152-159, for one region: acc is the list
\* region_configs, the table, and whether an exception has left the loop
CheckRegion(acc, region, urls, probes, puts, t) ==
    IF acc.raised \/ region.name \notin urls THEN acc
    ELSE LET h == CheckRegionHealth(probes[region.name], t)
             health_status == [region_name |-> region.name, status |-> h.status,
                               priority |-> region.priority, last_check |-> h.last_check,
                               response_time |-> h.response_time, error |-> h.error]
             u == UpdateRegionConfig(acc.table, region.name, health_status, t,
                                     puts[region.name])
         IN [region_configs |-> IF u.raised THEN acc.region_configs
                                ELSE Append(acc.region_configs, health_status),
             table |-> u.table,
             raised |-> u.raised]

\* The most recent call into the health checker: which function, the records
\* it worked on, what the AWS calls did during it, and what it returned (an
\* error result has the keys status and error only).  For a cycle urls is the
\* set of regions whose url is set; for a call of check_region_health probe is
\* what the request met and health_status <<d>> the dict d it returned.
NoHcObs ==
    [op |-> "none", configs |-> <<>>, puts |-> <<>>, metrics |-> "ok",
     status |-> "none", active_region |-> "", healthy_regions |-> 0,
     failover_performed |-> FALSE, urls |-> {}, probe |-> "none",
     health_status |-> <<>>]

\* lambda_handler(event, context): urls is the set of regions whose API url is
\* set, probes what each region's health request meets, puts the outcome of
\* the put_item of each key, metrics that of put_metric_data
LambdaHandler(urls, probes, puts, metrics) ==
    LET a0 == [region_configs |-> <<>>, table |-> config_table, raised |-> FALSE]
        a1 == CheckRegion(a0, HandlerRegions[1], urls, probes, puts, now)
        a2 == CheckRegion(a1, HandlerRegions[2], urls, probes, puts, now)
        active_region == DetermineActiveRegion(a2.region_configs)
        f == PerformFailoverIfNeeded(a2.region_configs, a2.table, now,
                                     puts["active_region"])
        healthy_count == Len(HealthyRegions(a2.region_configs))
        failed == a2.raised \/ f.raised \/ metrics = "Exception"
    IN
    /\ config_table' = IF a2.raised THEN a2.table ELSE f.table
    /\ hcObs' = IF failed
                THEN [NoHcObs EXCEPT !.op = "cycle", !.configs = a2.region_configs,
                                     !.puts = puts, !.metrics = metrics,
                                     !.status = "error", !.urls = urls]
                ELSE [NoHcObs EXCEPT !.op = "cycle", !.configs = a2.region_configs,
                                     !.puts = puts, !.metrics = metrics,
                                     !.status = "success",
                                     !.active_region = active_region,
                                     !.healthy_regions = healthy_count,
                                     !.failover_performed = f.ret, !.urls = urls]
    /\ UNCHANGED <<now, breakerVars, cacheVars, managerVars, threads>>

\* check_region_health(region, url), called by itself: the dict it returns
CheckHealth(probe) ==
    /\ hcObs' = [NoHcObs EXCEPT !.op = "check", !.probe = probe,
                                !.status = "returned",
                                !.health_status = <<CheckRegionHealth(probe, now)>>]
    /\ UNCHANGED <<now, breakerVars, cacheVars, managerVars, threads, config_table>>

\* determine_active_region(configs), called by itself
DetermineActive(configs) ==
    /\ hcObs' = [NoHcObs EXCEPT !.op = "select", !.configs = configs,
                                !.status = "returned",
                                !.active_region = DetermineActiveRegion(configs),
                                !.healthy_regions = Len(HealthyRegions(configs))]
    /\ UNCHANGED <<now, breakerVars, cacheVars, managerVars, threads, config_table>>

\* ------------------------------------------------------ multi-region manager
\* tools/multi_region.py.  A RegionConfig is a record; a locator that is not
\* set (None) is the empty string; last_health_check is None until a check.
\* RegionStatus values
ACTIVE == "active"
STANDBY == "standby"

RegionConfig(region_name, status, priority, api_gateway_url, runs_table, artifacts_bucket) ==
    [region_name |-> region_name, status |-> status, priority |-> priority,
     api_gateway_url |-> api_gateway_url, artifacts_bucket |-> artifacts_bucket,
     runs_table |-> runs_table,
     last_health_check |-> None, health_status |-> "unknown"]

\* MultiRegionManager.__init__: nothing is read from a store
MultiRegionManager(config) ==
    [config |-> config,
     current_region |-> config.primary_region,
     failure_count |-> 0,
     last_failover_time |-> 0]

\* get_region_config: the index of the first region of that name, 0 for None
RegionIndex(config, region_name) ==
    LET found == {i \in 1..Len(config.regions) :
                     config.regions[i].region_name = region_name}
    IN IF found = {} THEN 0 ELSE CHOOSE i \in found : \A j \in found : i <= j

\* What the requests of one check_region_health meet: the status code of
\* GET url/health or an exception of it, and whether describe_table and
\* head_bucket return or raise
ProbeEnvs ==
    {[http |-> "200", table |-> "ok", bucket |-> "ok"],
     [http |-> "503", table |-> "ok", bucket |-> "ok"],
     [http |-> "503", table |-> "raise", bucket |-> "ok"],
     [http |-> "raise", table |-> "ok", bucket |-> "ok"]}

\* check_region_health, lines 87-108: does the try block raise
CheckRaises(rc, env) ==
    \/ rc.api_gateway_url # "" /\ env.http = "raise"
    \/ /\ ~(rc.api_gateway_url # "" /\ env.http = "200")
       /\ \/ rc.runs_table # "" /\ env.table = "raise"
          \/ rc.artifacts_bucket # "" /\ env.bucket = "raise"

\* MultiRegionManager.check_region_health(region_name) at time t: the manager
\* after it and what it returns
ManagerCheckRegionHealth(m, region_name, env, t) ==
    LET i == RegionIndex(m.config, region_name) IN
    IF i = 0 THEN [manager |-> m, ret |-> FALSE]
    ELSE LET healthy == ~CheckRaises(m.config.regions[i], env) IN
         [manager |-> [m EXCEPT !.config.regions[i].health_status =
                                     IF healthy THEN "healthy" ELSE "unhealthy",
                                !.config.regions[i].last_health_check = t],
          ret |-> healthy]

\* check_all_regions_health from region k of the list on; envs gives what the
\* requests of each region's check meet
RECURSIVE CheckAllFrom(_, _, _, _)
CheckAllFrom(m, k, envs, t) ==
    IF k > Len(m.config.regions) THEN m
    ELSE CheckAllFrom(
             ManagerCheckRegionHealth(m, m.config.regions[k].region_name,
                                      envs[m.config.regions[k].region_name], t).manager,
             k + 1, envs, t)

\* the cooldown of should_failover, line 141
Cooldown == 300

\* variant of the definition below: the cooldown has passed when it has just elapsed
CooldownPassedAtLeast(t, last_failover_time) == t - last_failover_time >= Cooldown

\* should_failover, line 141
CooldownPassed(t, last_failover_time) == t - last_failover_time > Cooldown

\* variant of the definition below: a healthy check keeps the failures counted
AfterHealthyCheckKeep(m) == m

\* should_failover, lines 132-134: the current region's check was healthy
AfterHealthyCheck(m) == [m EXCEPT !.failure_count = 0]

\* should_failover at time t: the manager after it and what it returns
ShouldFailover(m, envs, t) ==
    IF ~m.config.failover_enabled THEN [manager |-> m, ret |-> FALSE]
    ELSE LET c == ManagerCheckRegionHealth(m, m.current_region,
                                           envs[m.current_region], t)
         IN
         IF c.ret THEN [manager |-> AfterHealthyCheck(c.manager), ret |-> FALSE]
         ELSE LET m1 == [c.manager EXCEPT !.failure_count = @ + 1] IN
              [manager |-> m1,
               ret |-> /\ m1.failure_count >= m1.config.failover_threshold
                       /\ CooldownPassed(t, m1.last_failover_time)]

\* variant of the definition below: the regions are tried in the order of the list
SortedByListOrder(regions, todo) == [i \in 1..Cardinality(todo) |-> i]

\* sorted(regions, key=priority): the indices of the list in that order (the
\* sort is stable)
RECURSIVE SortedByPriority(_, _)
SortedByPriority(regions, todo) ==
    IF todo = {} THEN <<>>
    ELSE LET i == CHOOSE i \in todo :
                     \A j \in todo :
                         \/ regions[i].priority < regions[j].priority
                         \/ regions[i].priority = regions[j].priority /\ i <= j
         IN <<i>> \o SortedByPriority(regions, todo \ {i})

NoRegion == "None"

\* variant of the definition below: the switch keeps the failures counted
SwitchToKeepCount(m, region_name, t) ==
    [m EXCEPT !.current_region = region_name, !.last_failover_time = t]

\* perform_failover, lines 159-162
SwitchTo(m, region_name, t) ==
    [m EXCEPT !.current_region = region_name, !.failure_count = 0,
              !.last_failover_time = t]

\* perform_failover, lines 154-168, from position k of the sorted list on
RECURSIVE FailoverFrom(_, _, _, _, _)
FailoverFrom(m, sorted, k, envs, t) ==
    IF k > Len(sorted) THEN [manager |-> m, ret |-> NoRegion]
    ELSE LET rc == m.config.regions[sorted[k]] IN
         IF rc.region_name # m.current_region /\ rc.status = ACTIVE
         THEN LET c == ManagerCheckRegionHealth(m, rc.region_name,
                                                envs[rc.region_name], t)
              IN IF c.ret
                 THEN [manager |-> SwitchTo(c.manager, rc.region_name, t),
                       ret |-> rc.region_name]
                 ELSE FailoverFrom(c.manager, sorted, k + 1, envs, t)
         ELSE FailoverFrom(m, sorted, k + 1, envs, t)

\* perform_failover: should_failover runs at time t, the search for the next
\* region and the switch at time t + d
PerformFailover(m, envs, t, d) ==
    LET s == ShouldFailover(m, envs, t) IN
    IF ~s.ret THEN [manager |-> s.manager, ret |-> NoRegion]
    ELSE FailoverFrom(s.manager,
                      SortedByPriority(s.manager.config.regions,
                                       1..Len(s.manager.config.regions)),
                      1, envs, t + d)

\* The most recent call on the manager: the method, what it returned, whether
\* the requests of a check of the then current region met a healthy region,
\* and failure_count before the call.  For the properties, how many checks in
\* a row have found the region that is now current unhealthy with no healthy
\* check of it since: run counts the checks of should_failover, runAny the
\* checks of every caller (both up to cap).  For a call of
\* check_region_health by itself, region is its argument and env <<e>> what
\* its requests met.
NoMgrObs ==
    [op |-> "none", ret |-> NoRegion, healthy |-> FALSE, count |-> 0,
     run |-> 0, runAny |-> 0, region |-> "", env |-> <<>>]

RunAfter(run, healthy, cap) == IF healthy THEN 0 ELSE Min(run + 1, cap)

\* the regions of a manager's config
RegionNames(m) == {m.config.regions[i].region_name : i \in 1..Len(m.config.regions)}

\* what the current region's check of a call found (TRUE: healthy)
CurrentHealthy(m, envs) ==
    ManagerCheckRegionHealth(m, m.current_region, envs[m.current_region], now).ret

\* manager.perform_failover() (check_and_failover): d is the time between the
\* cooldown test and the switch; cap bounds failure_count and the two runs
ManagerPerformFailover(envs, d, cap) ==
    LET s == ShouldFailover(manager, envs, now)
        r == PerformFailover(manager, envs, now, d)
        switched == r.ret # NoRegion
        observed == manager.config.failover_enabled
        healthy == CurrentHealthy(manager, envs)
    IN
    /\ manager.failure_count < cap
    /\ d = 0 \/ s.ret
    /\ manager' = r.manager
    /\ now' = now + d
    /\ mgrObs' = [region |-> "", env |-> <<>>, op |-> "perform_failover", ret |-> r.ret,
                  healthy |-> healthy, count |-> manager.failure_count,
                  run |-> IF switched THEN 0
                          ELSE IF observed THEN RunAfter(mgrObs.run, healthy, cap)
                          ELSE mgrObs.run,
                  runAny |-> IF switched THEN 0
                             ELSE IF observed THEN RunAfter(mgrObs.runAny, healthy, cap)
                             ELSE mgrObs.runAny]
    /\ UNCHANGED <<breakerVars, cacheVars, healthVars, threads>>

\* manager.should_failover(), called by itself
ManagerShouldFailover(envs, cap) ==
    LET s == ShouldFailover(manager, envs, now)
        observed == manager.config.failover_enabled
        healthy == CurrentHealthy(manager, envs)
    IN
    /\ manager.failure_count < cap
    /\ manager' = s.manager
    /\ mgrObs' = [region |-> "", env |-> <<>>, op |-> "should_failover",
                  ret |-> IF s.ret THEN "True" ELSE "False",
                  healthy |-> healthy, count |-> manager.failure_count,
                  run |-> IF observed THEN RunAfter(mgrObs.run, healthy, cap)
                          ELSE mgrObs.run,
                  runAny |-> IF observed THEN RunAfter(mgrObs.runAny, healthy, cap)
                             ELSE mgrObs.runAny]
    /\ UNCHANGED <<now, breakerVars, cacheVars, healthVars, threads>>

\* manager.check_all_regions_health() (get_status)
ManagerCheckAll(envs, cap) ==
    /\ manager' = CheckAllFrom(manager, 1, envs, now)
    /\ mgrObs' = [region |-> "", env |-> <<>>, op |-> "check_all_regions_health", ret |-> NoRegion,
                  healthy |-> CurrentHealthy(manager, envs),
                  count |-> manager.failure_count,
                  run |-> mgrObs.run,
                  runAny |-> IF manager.current_region \in RegionNames(manager)
                             THEN RunAfter(mgrObs.runAny,
                                           CurrentHealthy(manager, envs), cap)
                             ELSE mgrObs.runAny]
    /\ UNCHANGED <<now, breakerVars, cacheVars, healthVars, threads>>

\* the config a process builds at its start: no region has been checked yet
FreshConfig(config) ==
    [config EXCEPT !.regions =
        [i \in 1..Len(config.regions) |->
            [config.regions[i] EXCEPT !.last_health_check = None,
                                      !.health_status = "unknown"]]]

\* initialize_multi_region(config) in a fresh process
InitializeMultiRegion ==
    /\ manager' = MultiRegionManager(FreshConfig(manager.config))
    /\ mgrObs' = [NoMgrObs EXCEPT !.op = "initialize_multi_region"]
    /\ UNCHANGED <<now, breakerVars, cacheVars, healthVars, threads>>

\* manager.check_region_health(region_name), called by itself; env is what
\* the requests of the check meet
ManagerCheckRegion(region_name, env) ==
    LET r == ManagerCheckRegionHealth(manager, region_name, env, now) IN
    /\ manager' = r.manager
    /\ mgrObs' = [NoMgrObs EXCEPT !.op = "check_region_health",
                                  !.ret = IF r.ret THEN "True" ELSE "False",
                                  !.healthy = r.ret,
                                  !.region = region_name,
                                  !.env = <<env>>]
    /\ UNCHANGED <<now, breakerVars, cacheVars, healthVars, threads>>

\* time.time() advances to one of the clock values
ManagerTick(clock) ==
    /\ \E t \in clock : t > now /\ now' = t
    /\ UNCHANGED <<breakerVars, cacheVars, healthVars, managerVars, threads>>

\* ------------------------------------------- concurrent calls on one breaker
\* CircuitBreaker takes no lock.  A thread of an overlapping invocation runs
\* call on instance 1 one attribute read or write at a time; threads[t] holds
\* where thread t is (pc), the value it has loaded for an augmented assignment
\* (tmp), how func ends, and for the properties the calls it has started and
\* the classified failures and successes whose handling it has completed.
IdleThread ==
    [pc |-> "idle", tmp |-> 0, result |-> "none", exc |-> "none",
     calls |-> 0, failures |-> 0, successes |-> 0]

\* thread t moves to pc with the given fields changed
Goto(t, pc) == [threads EXCEPT ![t].pc = pc]

\* call, lines 44-49: the state test before func; a rejected call ends here
ThreadEnter(t, result, exc, maxCalls) ==
    /\ threads[t].pc = "idle"
    /\ threads[t].calls < maxCalls
    /\ IF Rejected(heap[1], now)
       THEN /\ threads' = [threads EXCEPT ![t].calls = @ + 1]
            /\ UNCHANGED heap
       ELSE /\ heap' = [heap EXCEPT ![1] = Enter(heap[1], now)]
            /\ threads' = [threads EXCEPT ![t].pc = "func", ![t].calls = @ + 1,
                                          ![t].result = result, ![t].exc = exc]
    /\ UNCHANGED <<now, _circuit_breakers, lastCall, lastGet, hist, regHist,
                   cacheVars, healthVars, managerVars>>

\* call, lines 51-61: func returns or raises; an unclassified failure is re-raised
ThreadReturn(t) ==
    /\ threads[t].pc = "func"
    /\ threads' = Goto(t, IF threads[t].result = "ok" THEN "success_time"
                          ELSE IF Classified(threads[t].exc, heap[1].config)
                          THEN "failure_load" ELSE "idle")
    /\ UNCHANGED <<now, breakerVars, cacheVars, healthVars, managerVars>>

\* _on_failure, line 86: the read of self.failure_count += 1
OnFailureLoad(t) ==
    /\ threads[t].pc = "failure_load"
    /\ threads' = [threads EXCEPT ![t].pc = "failure_store",
                                  ![t].tmp = heap[1].failure_count]
    /\ UNCHANGED <<now, breakerVars, cacheVars, healthVars, managerVars>>

\* _on_failure, line 86: the write of self.failure_count += 1
OnFailureStore(t) ==
    /\ threads[t].pc = "failure_store"
    /\ heap' = [heap EXCEPT ![1].failure_count = threads[t].tmp + 1]
    /\ threads' = Goto(t, "failure_time")
    /\ UNCHANGED <<now, _circuit_breakers, lastCall, lastGet, hist, regHist,
                   cacheVars, healthVars, managerVars>>

\* _on_failure, line 87
OnFailureTime(t) ==
    /\ threads[t].pc = "failure_time"
    /\ heap' = [heap EXCEPT ![1].last_failure_time = now]
    /\ threads' = Goto(t, "failure_check")
    /\ UNCHANGED <<now, _circuit_breakers, lastCall, lastGet, hist, regHist,
                   cacheVars, healthVars, managerVars>>

\* _on_failure, lines 89-91
OnFailureCheck(t) ==
    /\ threads[t].pc = "failure_check"
    /\ heap' = IF heap[1].failure_count >= heap[1].config.failure_threshold
               THEN [heap EXCEPT ![1].state = "OPEN"] ELSE heap
    /\ threads' = [threads EXCEPT ![t].pc = "idle", ![t].failures = @ + 1]
    /\ UNCHANGED <<now, _circuit_breakers, lastCall, lastGet, hist, regHist,
                   cacheVars, healthVars, managerVars>>

\* _on_success, line 71
OnSuccessTime(t) ==
    /\ threads[t].pc = "success_time"
    /\ heap' = [heap EXCEPT ![1].last_success_time = now]
    /\ threads' = Goto(t, "success_branch")
    /\ UNCHANGED <<now, _circuit_breakers, lastCall, lastGet, hist, regHist,
                   cacheVars, healthVars, managerVars>>

\* _on_success, lines 73-74 and 80-82: the state test, then the read of
\* self.success_count += 1 or the reset of failure_count
OnSuccessBranch(t) ==
    /\ threads[t].pc = "success_branch"
    /\ IF heap[1].state = "HALF_OPEN"
       THEN /\ threads' = [threads EXCEPT ![t].pc = "success_store",
                                          ![t].tmp = heap[1].success_count]
            /\ UNCHANGED heap
       ELSE /\ heap' = [heap EXCEPT ![1].failure_count = 0]
            /\ threads' = [threads EXCEPT ![t].pc = "idle", ![t].successes = @ + 1]
    /\ UNCHANGED <<now, _circuit_breakers, lastCall, lastGet, hist, regHist,
                   cacheVars, healthVars, managerVars>>

\* _on_success, line 74: the write of self.success_count += 1
OnSuccessStore(t) ==
    /\ threads[t].pc = "success_store"
    /\ heap' = [heap EXCEPT ![1].success_count = threads[t].tmp + 1]
    /\ threads' = Goto(t, "success_check")
    /\ UNCHANGED <<now, _circuit_breakers, lastCall, lastGet, hist, regHist,
                   cacheVars, healthVars, managerVars>>

\* _on_success, lines 75-78
OnSuccessCheck(t) ==
    /\ threads[t].pc = "success_check"
    /\ heap' = IF heap[1].success_count >= heap[1].config.success_threshold
               THEN [heap EXCEPT ![1].state = "CLOSED", ![1].failure_count = 0,
                                 ![1].success_count = 0]
               ELSE heap
    /\ threads' = [threads EXCEPT ![t].pc = "idle", ![t].successes = @ + 1]
    /\ UNCHANGED <<now, _circuit_breakers, lastCall, lastGet, hist, regHist,
                   cacheVars, healthVars, managerVars>>

\* time.time() advances while calls are in progress
ThreadTick(limit) ==
    /\ now < limit
    /\ now' = now + 1
    /\ UNCHANGED <<breakerVars, cacheVars, healthVars, managerVars, threads>>

\* ------------------------------------- concurrent calls on the memory backend
\* MemoryCache takes no lock.  A thread of an overlapping invocation runs get,
\* set or delete one dict operation at a time; threads[t] holds where thread t
\* is (pc), the method and its key, the key _evict_oldest has picked (tmp),
\* the statement that raised KeyError in the thread's last call ("none" when
\* it returned), and the calls the thread has started.
IdleMemoryThread ==
    [pc |-> "idle", op |-> "none", key |-> <<>>, tmp |-> <<>>,
     raised |-> "none", calls |-> 0]

\* the call of thread t ends: it returns, or raises KeyError at a statement
Returns(t) == [threads EXCEPT ![t].pc = "idle"]
RaisesKeyError(t, at) == [threads EXCEPT ![t].pc = "idle", ![t].raised = at]

\* a thread enters get, set or delete with a key
MemoryStart(t, op, key, maxCalls) ==
    /\ threads[t].pc = "idle"
    /\ threads[t].calls < maxCalls
    /\ threads' = [threads EXCEPT ![t] = [pc |-> op, op |-> op, key |-> key,
                                          tmp |-> <<>>, raised |-> "none",
                                          calls |-> @.calls + 1]]
    /\ UNCHANGED <<now, breakerVars, cacheVars, healthVars, managerVars>>

\* set, lines 204-205: the test that leads to _evict_oldest
SetTest(t) ==
    /\ threads[t].pc = "set"
    /\ threads' = [threads EXCEPT ![t].pc =
          IF /\ Cardinality(DOMAIN cache._cache) >= cacheConfig.max_memory_items
             /\ threads[t].key \notin DOMAIN cache._cache
          THEN "evict" ELSE "set_item"]
    /\ UNCHANGED <<now, breakerVars, cacheVars, healthVars, managerVars>>

\* _evict_oldest, lines 221-224: the empty test and the choice of oldest_key
EvictChoose(t) ==
    /\ threads[t].pc = "evict"
    /\ threads' = IF cache._access_times = <<>>
                  THEN [threads EXCEPT ![t].pc = "set_item"]
                  ELSE [threads EXCEPT ![t].pc = "evict_cache",
                                       ![t].tmp = DictMinKey(cache._access_times)]
    /\ UNCHANGED <<now, breakerVars, cacheVars, healthVars, managerVars>>

\* _evict_oldest, line 225: del self._cache[oldest_key]
EvictCache(t) ==
    /\ threads[t].pc = "evict_cache"
    /\ IF threads[t].tmp \in DOMAIN cache._cache
       THEN /\ cache' = [cache EXCEPT !._cache =
                            [k \in DOMAIN @ \ {threads[t].tmp} |-> @[k]]]
            /\ threads' = [threads EXCEPT ![t].pc = "evict_access"]
       ELSE /\ threads' = RaisesKeyError(t, "del self._cache[oldest_key]")
            /\ UNCHANGED cache
    /\ UNCHANGED <<now, breakerVars, healthVars, managerVars, cacheConfig,
                   cacheObs, written>>

\* _evict_oldest, line 226: del self._access_times[oldest_key]
EvictAccess(t) ==
    /\ threads[t].pc = "evict_access"
    /\ IF DictHas(cache._access_times, threads[t].tmp)
       THEN /\ cache' = [cache EXCEPT !._access_times = DictDel(@, threads[t].tmp)]
            /\ threads' = [threads EXCEPT ![t].pc = "set_item"]
       ELSE /\ threads' = RaisesKeyError(t, "del self._access_times[oldest_key]")
            /\ UNCHANGED cache
    /\ UNCHANGED <<now, breakerVars, healthVars, managerVars, cacheConfig,
                   cacheObs, written>>

\* set, line 207: self._cache[key] = item; the item's ttl has run out one
\* time unit after the set
SetItem(t) ==
    /\ threads[t].pc = "set_item"
    /\ cache' = [cache EXCEPT !._cache =
                    (threads[t].key :> NewCacheItem(threads[t].key, PyInt("42"), now, now))
                    @@ @]
    /\ threads' = [threads EXCEPT ![t].pc = "set_access"]
    /\ UNCHANGED <<now, breakerVars, healthVars, managerVars, cacheConfig,
                   cacheObs, written>>

\* set, lines 208-209
SetAccess(t) ==
    /\ threads[t].pc = "set_access"
    /\ cache' = [cache EXCEPT !._access_times = DictPut(@, threads[t].key, now)]
    /\ threads' = Returns(t)
    /\ UNCHANGED <<now, breakerVars, healthVars, managerVars, cacheConfig,
                   cacheObs, written>>

\* delete, line 213: if key in self._cache
DeleteTest(t) ==
    /\ threads[t].pc = "delete"
    /\ threads' = [threads EXCEPT ![t].pc =
          IF threads[t].key \in DOMAIN cache._cache
          THEN "delete_cache" ELSE "delete_access_test"]
    /\ UNCHANGED <<now, breakerVars, cacheVars, healthVars, managerVars>>

\* delete, line 214: del self._cache[key]
DeleteCache(t) ==
    /\ threads[t].pc = "delete_cache"
    /\ IF threads[t].key \in DOMAIN cache._cache
       THEN /\ cache' = [cache EXCEPT !._cache =
                            [k \in DOMAIN @ \ {threads[t].key} |-> @[k]]]
            /\ threads' = [threads EXCEPT ![t].pc = "delete_access_test"]
       ELSE /\ threads' = RaisesKeyError(t, "del self._cache[key]")
            /\ UNCHANGED cache
    /\ UNCHANGED <<now, breakerVars, healthVars, managerVars, cacheConfig,
                   cacheObs, written>>

\* delete, line 215: if key in self._access_times
DeleteAccessTest(t) ==
    /\ threads[t].pc = "delete_access_test"
    /\ threads' = IF DictHas(cache._access_times, threads[t].key)
                  THEN [threads EXCEPT ![t].pc = "delete_access"]
                  ELSE Returns(t)
    /\ UNCHANGED <<now, breakerVars, cacheVars, healthVars, managerVars>>

\* delete, lines 216-217: del self._access_times[key]
DeleteAccess(t) ==
    /\ threads[t].pc = "delete_access"
    /\ IF DictHas(cache._access_times, threads[t].key)
       THEN /\ cache' = [cache EXCEPT !._access_times = DictDel(@, threads[t].key)]
            /\ threads' = Returns(t)
       ELSE /\ threads' = RaisesKeyError(t, "del self._access_times[key]")
            /\ UNCHANGED cache
    /\ UNCHANGED <<now, breakerVars, healthVars, managerVars, cacheConfig,
                   cacheObs, written>>

\* get, line 188: if key in self._cache
GetTest(t) ==
    /\ threads[t].pc = "get"
    /\ threads' = IF threads[t].key \in DOMAIN cache._cache
                  THEN [threads EXCEPT ![t].pc = "get_item"]
                  ELSE Returns(t)
    /\ UNCHANGED <<now, breakerVars, cacheVars, healthVars, managerVars>>

\* get, lines 189-190: item = self._cache[key] and the expiry test
GetItem(t) ==
    /\ threads[t].pc = "get_item"
    /\ threads' = IF threads[t].key \notin DOMAIN cache._cache
                  THEN RaisesKeyError(t, "item = self._cache[key]")
                  ELSE IF IsExpired(cache._cache[threads[t].key], now)
                  THEN [threads EXCEPT ![t].pc = "get_expired"]
                  ELSE [threads EXCEPT ![t].pc = "get_hit"]
    /\ UNCHANGED <<now, breakerVars, cacheVars, healthVars, managerVars>>

\* get, lines 191-193: a hit; the item object is updated also when another
\* thread has taken it out of the dict meanwhile
GetHit(t) ==
    /\ threads[t].pc = "get_hit"
    /\ cache' = [cache EXCEPT
                    !._cache = IF threads[t].key \in DOMAIN @
                               THEN [@ EXCEPT ![threads[t].key].hits = @ + 1] ELSE @,
                    !._access_times = DictPut(@, threads[t].key, now)]
    /\ threads' = Returns(t)
    /\ UNCHANGED <<now, breakerVars, healthVars, managerVars, cacheConfig,
                   cacheObs, written>>

\* get, lines 194-199: the expired item is removed
GetExpired(t) ==
    /\ threads[t].pc = "get_expired"
    /\ IF threads[t].key \in DOMAIN cache._cache
       THEN /\ cache' = [cache EXCEPT
                            !._cache = [k \in DOMAIN @ \ {threads[t].key} |-> @[k]],
                            !._access_times = DictDel(@, threads[t].key)]
            /\ threads' = Returns(t)
       ELSE /\ threads' = RaisesKeyError(t, "del self._cache[key]")
            /\ UNCHANGED cache
    /\ UNCHANGED <<now, breakerVars, healthVars, managerVars, cacheConfig,
                   cacheObs, written>>

\* ---------------------------------------------------------- specifications
\* No manager has been constructed
NoManager ==
    /\ manager = <<>>
    /\ mgrObs = NoMgrObs

\* No call is in progress in a thread
NoThreads == threads = <<>>

\* The health checker has not run: the table is empty
NoHealth ==
    /\ config_table = <<>>
    /\ hcObs = NoHcObs

\* CacheConfig() and an AdvancedCache whose backends are not initialized yet
DefaultCacheConfig ==
    [backends |-> <<>>, ttl_seconds |-> DefaultTtlSeconds,
     max_memory_items |-> DefaultMaxMemoryItems, key_prefix |-> "archon"]

NoCache ==
    /\ cacheConfig = DefaultCacheConfig
    /\ cache = NoStores
    /\ cacheObs = NoCacheObs
    /\ written = <<>>

\* No breaker registered
NoBreakers ==
    /\ _circuit_breakers = <<>>
    /\ heap = <<>>
    /\ lastCall = NoCall
    /\ lastGet = NoGet
    /\ hist = <<>>
    /\ regHist = <<>>

\* One breaker, obtained by get_circuit_breaker("github_api", c) for a config c
\* of Configs; calls with operations of every outcome and duration.
Init ==
    \E c \in Configs :
        /\ now = 0
        /\ _circuit_breakers = ("github_api" :> 1)
        /\ heap = (1 :> CircuitBreaker("github_api", {c}))
        /\ lastCall = NoCall
        /\ lastGet = [name |-> "github_api", config |-> {c}, ret |-> 1, existed |-> FALSE]
        /\ hist = (1 :> NewHist)
        /\ regHist = ("github_api" :> [returned |-> {1}, firstArg |-> {c}])
        /\ NoCache
        /\ NoHealth
        /\ NoManager
        /\ NoThreads

Next ==
    \/ \E r \in {"ok", "raise"}, e \in Raisable, d \in 0..MaxOpDuration :
          Call(1, r, e, d, MaxTime)
    \/ Tick(MaxTime)

Spec == Init /\ [][Next]_vars

\* Recovery: the one breaker of Init; operations fail only in calls that end
\* by MaxFailTime and every later operation returns; the clock runs for a
\* recovery timeout beyond that.  Time advances while it can, and a call whose
\* operation returns at once is made whenever it changes anything.
RecoveryTimeLimit == MaxFailTime + MaxRecoveryTimeout

RecoveryCall(result, exc, d) ==
    /\ result = "raise" => now + d <= MaxFailTime
    /\ Call(1, result, exc, d, RecoveryTimeLimit)

NextRecovery ==
    \/ \E r \in {"ok", "raise"}, e \in Raisable, d \in 0..MaxOpDuration :
          RecoveryCall(r, e, d)
    \/ Tick(RecoveryTimeLimit)

SpecRecovery ==
    /\ Init
    /\ [][NextRecovery]_vars
    /\ WF_vars(Tick(RecoveryTimeLimit))
    /\ WF_vars(\E e \in Raisable : RecoveryCall("ok", e, 0))

\* The registry at one instant: two names, get_circuit_breaker with no config
\* and with the largest config of Configs, calls on the instances it has
\* returned.
Names == {"github_api", "aws_api"}

RegistryConfigs ==
    {c \in Configs :
        /\ c.expected_exception = "Exception"
        /\ c.timeout = 1
        /\ c.recovery_timeout = 1
        /\ c.failure_threshold = c.success_threshold
        /\ c.failure_threshold = MaxThreshold}

InitRegistry ==
    /\ now = 0
    /\ NoBreakers
    /\ NoCache
    /\ NoHealth
    /\ NoManager
    /\ NoThreads

NextRegistry ==
    \/ \E n \in Names, c \in {{}} \cup {{x} : x \in RegistryConfigs} : GetCircuitBreaker(n, c)
    \/ \E i \in DOMAIN heap, r \in {"ok", "raise"} :
          Call(i, r, "ConnectionError", 0, MaxTime)

SpecRegistry == InitRegistry /\ [][NextRegistry]_vars

\* The cache with every backend working: each chain _initialize_backends can
\* build, max_memory_items 1..MaxMemoryItems, two calls <<namespace, args>> that
\* differ in both, an int and a str value, time to live None, 0 and MaxTtl.
CacheCalls == {<<<<"ns">>, <<>>>>, <<<<"ns", ":", "v2">>, <<PyInt("42")>>>>}
Namespaces == {c[1] : c \in CacheCalls}
CacheValues == {PyInt("42"), PyStr(<<"raw", "42">>)}
TtlChoices == {None, 0, MaxTtl}

InitCache ==
    /\ now = 0
    /\ NoBreakers
    /\ \E chain \in Chains, m \in 1..MaxMemoryItems :
          cacheConfig = [backends |-> chain, ttl_seconds |-> DefaultTtlSeconds,
                         max_memory_items |-> m, key_prefix |-> "archon"]
    /\ cache = NoStores
    /\ cacheObs = NoCacheObs
    /\ written = <<>>
    /\ NoHealth
    /\ NoManager
    /\ NoThreads

NextCache ==
    \/ \E c \in CacheCalls : CacheGet(c[1], c[2], {})
    \/ \E c \in CacheCalls, v \in CacheValues, ttl \in TtlChoices :
          CacheSet(c[1], v, ttl, c[2], {})
    \/ \E c \in CacheCalls : CacheDelete(c[1], c[2], {})
    \/ \E ns \in {<<>>} \cup Namespaces : CacheClear(ns)
    \/ CacheTick

SpecCache == InitCache /\ [][NextCache]_vars

\* The cache with remote backends that fail: each chain, one call, two values
\* that every backend gives back as they were set, and for every get, set and
\* delete each set of remote backends of the chain that raise (or report
\* failure) during it.  The memory backend has no operation that fails.
FaultCall == <<<<"ns">>, <<>>>>
FaultValues == {PyInt("42"), PyStr(<<"raw", "v2">>)}
Range(seq) == {seq[i] : i \in 1..Len(seq)}
FaultSets == SUBSET (Range(cacheConfig.backends) \ {"memory"})

InitCacheFaults ==
    /\ now = 0
    /\ NoBreakers
    /\ \E chain \in Chains :
          cacheConfig = [backends |-> chain, ttl_seconds |-> DefaultTtlSeconds,
                         max_memory_items |-> MaxMemoryItems, key_prefix |-> "archon"]
    /\ cache = NoStores
    /\ cacheObs = NoCacheObs
    /\ written = <<>>
    /\ NoHealth
    /\ NoManager
    /\ NoThreads

NextCacheFaults ==
    \/ \E f \in FaultSets : CacheGet(FaultCall[1], FaultCall[2], f)
    \/ \E v \in FaultValues, f \in FaultSets :
          CacheSet(FaultCall[1], v, MaxTtl, FaultCall[2], f)
    \/ \E f \in FaultSets : CacheDelete(FaultCall[1], FaultCall[2], f)
    \/ \E ns \in {<<>>, FaultCall[1]} : CacheClear(ns)
    \/ CacheTick

SpecCacheFaults == InitCacheFaults /\ [][NextCacheFaults]_vars

\* The memory backend alone (the chain when neither remote backend could be
\* made): max_memory_items 0..MaxMemoryItems, three calls with different keys,
\* two of them in one namespace.
MemoryCalls == CacheCalls \cup {<<<<"ns">>, <<PyInt("42")>>>>}

InitMemory ==
    /\ now = 0
    /\ NoBreakers
    /\ \E m \in 0..MaxMemoryItems :
          cacheConfig = [backends |-> <<"memory">>, ttl_seconds |-> DefaultTtlSeconds,
                         max_memory_items |-> m, key_prefix |-> "archon"]
    /\ cache = NoStores
    /\ cacheObs = NoCacheObs
    /\ written = <<>>
    /\ NoHealth
    /\ NoManager
    /\ NoThreads

NextMemory ==
    \/ \E c \in MemoryCalls : CacheGet(c[1], c[2], {})
    \/ \E c \in MemoryCalls : CacheSet(c[1], PyInt("42"), MaxTtl, c[2], {})
    \/ \E c \in MemoryCalls : CacheDelete(c[1], c[2], {})
    \/ \E ns \in {<<>>, <<"ns">>} : CacheClear(ns)
    \/ CacheTick

SpecMemory == InitMemory /\ [][NextMemory]_vars

\* The health checker: cycles of lambda_handler with every combination of
\* configured urls, probe results and AWS outcomes, and determine_active_region
\* called with every list of at most MaxRecords records of different regions,
\* in every order, each healthy or unhealthy.  A third region stands for the
\* regions a caller may pass beyond the two of lambda_handler.
RecordRegions == {PRIMARY_REGION, SECONDARY_REGION, "eu-west-1"}
RegionPriority(name) ==
    IF name = PRIMARY_REGION THEN 1 ELSE IF name = SECONDARY_REGION THEN 2 ELSE 3
RegionRecord(name, status) ==
    [region_name |-> name, status |-> status, priority |-> RegionPriority(name),
     last_check |-> 0,
     response_time |-> IF status = "healthy" THEN "elapsed" ELSE "absent",
     error |-> IF status = "healthy" THEN "absent" ELSE "HTTP 503"]
RecordLists ==
    UNION {{seq \in [1..n -> {RegionRecord(r, st) : r \in RecordRegions,
                                                   st \in {"healthy", "unhealthy"}}] :
               \A i, j \in 1..n : i # j => seq[i].region_name # seq[j].region_name} :
           n \in 0..MaxRecords}
PutKeys == {PRIMARY_REGION, SECONDARY_REGION, "active_region"}
\* one probe that gives a healthy status and one that gives an unhealthy one
HandlerProbes == {"200 json", "exception"}

InitHealth ==
    /\ now = 0
    /\ NoBreakers
    /\ NoCache
    /\ NoHealth
    /\ NoManager
    /\ NoThreads

NextHealth ==
    \/ \E urls \in SUBSET {PRIMARY_REGION, SECONDARY_REGION},
          probes \in [{PRIMARY_REGION, SECONDARY_REGION} -> HandlerProbes],
          puts \in [PutKeys -> PutOutcomes],
          metrics \in {"ok", "Exception"} :
          \* a region without url is not probed and not written
          /\ \A r \in {PRIMARY_REGION, SECONDARY_REGION} \ urls :
                probes[r] = "200 json" /\ puts[r] = "ok"
          /\ LambdaHandler(urls, probes, puts, metrics)
    \/ \E configs \in RecordLists : DetermineActive(configs)
    \/ \E probe \in Probes : CheckHealth(probe)

SpecHealth == InitHealth /\ [][NextHealth]_vars

\* A manager of three regions, listed out of priority order, whose primary is
\* "us-east-1"; the clock starts at a unix time that is more than the cooldown
\* after 0 and is read at the start and, after each cooldown period, when the
\* period has just elapsed and one time unit later.
StartTime == 1000
ClockValues ==
    {StartTime} \cup {StartTime + k * Cooldown + e : k \in 1..MaxCooldowns, e \in 0..1}
ManagerRegions(status2) ==
    <<RegionConfig("eu-west-1", ACTIVE, 3, "", "runs-eu", ""),
      RegionConfig("us-east-1", ACTIVE, 1, "https://api-east", "runs-east", "artifacts-east"),
      RegionConfig("us-west-2", status2, 2, "https://api-west", "", "")>>
MultiRegionConfig(status2, enabled, threshold) ==
    [primary_region |-> "us-east-1", regions |-> ManagerRegions(status2),
     failover_enabled |-> enabled, health_check_interval |-> 300,
     failover_threshold |-> threshold]
ManagerConfigs ==
    {MultiRegionConfig(ACTIVE, TRUE, threshold) : threshold \in 1..MaxFailoverThreshold}
    \cup {MultiRegionConfig(STANDBY, TRUE, 1), MultiRegionConfig(ACTIVE, FALSE, 1)}
\* what the checks of a call meet, per region; the entry of a request the
\* region's check does not make (no url, no table) is not read and is fixed
ManagerEnvs ==
    {envs \in [{"eu-west-1", "us-east-1", "us-west-2"} -> ProbeEnvs] :
        \A i \in 1..3 :
            LET rc == ManagerRegions(ACTIVE)[i] IN
            /\ rc.api_gateway_url = "" => envs[rc.region_name].http = "503"
            /\ rc.runs_table = "" => envs[rc.region_name].table = "ok"}
\* the entry of a region that a call does not check
DefaultEnv == [http |-> "503", table |-> "ok", bucket |-> "ok"]
OnlyCurrentChecked(envs) ==
    \A r \in DOMAIN envs : r # manager.current_region => envs[r] = DefaultEnv

InitManager ==
    /\ now = StartTime
    /\ NoBreakers
    /\ NoCache
    /\ NoHealth
    /\ NoThreads
    /\ \E config \in ManagerConfigs : manager = MultiRegionManager(config)
    /\ mgrObs = NoMgrObs

NextManager ==
    \/ \E envs \in ManagerEnvs, d \in 0..1 :
          /\ now + d \in ClockValues
          \* the other regions are checked only when should_failover returns True
          /\ ShouldFailover(manager, envs, now).ret \/ OnlyCurrentChecked(envs)
          /\ ManagerPerformFailover(envs, d, MaxFailureCount)
    \/ \E envs \in ManagerEnvs :
          /\ OnlyCurrentChecked(envs)
          /\ ManagerShouldFailover(envs, MaxFailureCount)
    \/ \E envs \in ManagerEnvs : ManagerCheckAll(envs, MaxFailureCount)
    \/ InitializeMultiRegion
    \/ ManagerTick(ClockValues)

SpecManager == InitManager /\ [][NextManager]_vars

\* check_region_health called by itself on the manager of InitManager: every
\* configured region and a name that is not configured, every ProbeEnvs
UnknownRegion == "ap-south-1"

NextRegionCheck ==
    \/ \E region_name \in {"eu-west-1", "us-east-1", "us-west-2", UnknownRegion},
          env \in ProbeEnvs :
          ManagerCheckRegion(region_name, env)
    \/ ManagerTick(ClockValues)

SpecRegionCheck == InitManager /\ [][NextRegionCheck]_vars

\* MaxThreads threads call the breaker "github_api", each up to MaxThreadCalls
\* times, with operations that return or raise; every interleaving of their
\* steps is a behaviour.
ThreadIds == 1..MaxThreads
ThreadConfigs ==
    {[failure_threshold |-> ft, recovery_timeout |-> 1, success_threshold |-> st,
      timeout |-> 1, expected_exception |-> "ConnectionError"] :
        ft \in 1..MaxThreshold, st \in 1..MaxThreshold}

InitBreakerThreads ==
    \E c \in ThreadConfigs :
        /\ now = 0
        /\ _circuit_breakers = ("github_api" :> 1)
        /\ heap = (1 :> CircuitBreaker("github_api", {c}))
        /\ lastCall = NoCall
        /\ lastGet = [name |-> "github_api", config |-> {c}, ret |-> 1, existed |-> FALSE]
        /\ hist = (1 :> NewHist)
        /\ regHist = ("github_api" :> [returned |-> {1}, firstArg |-> {c}])
        /\ NoCache
        /\ NoHealth
        /\ NoManager
        /\ threads = [t \in ThreadIds |-> IdleThread]

NextBreakerThreads ==
    \/ \E t \in ThreadIds, r \in {"ok", "raise"}, e \in Raisable :
          /\ r = "ok" => e = "ConnectionError"
          /\ ThreadEnter(t, r, e, MaxThreadCalls)
    \/ \E t \in ThreadIds : ThreadReturn(t)
    \/ \E t \in ThreadIds : OnFailureLoad(t)
    \/ \E t \in ThreadIds : OnFailureStore(t)
    \/ \E t \in ThreadIds : OnFailureTime(t)
    \/ \E t \in ThreadIds : OnFailureCheck(t)
    \/ \E t \in ThreadIds : OnSuccessTime(t)
    \/ \E t \in ThreadIds : OnSuccessBranch(t)
    \/ \E t \in ThreadIds : OnSuccessStore(t)
    \/ \E t \in ThreadIds : OnSuccessCheck(t)
    \/ ThreadTick(MaxThreadTime)

SpecBreakerThreads == InitBreakerThreads /\ [][NextBreakerThreads]_vars

\* MaxThreads threads call get, set and delete of one MemoryCache whose
\* max_items is 1..MaxMemoryItems, each up to MaxThreadCalls times, with the
\* keys of two cache calls; every interleaving of their steps is a behaviour.
ThreadKeys == {GenerateKey(DefaultCacheConfig, c[1], c[2]) : c \in CacheCalls}

InitMemoryThreads ==
    /\ now = 0
    /\ NoBreakers
    /\ \E m \in 1..MaxMemoryItems :
          cacheConfig = [backends |-> <<"memory">>, ttl_seconds |-> DefaultTtlSeconds,
                         max_memory_items |-> m, key_prefix |-> "archon"]
    /\ cache = NoStores
    /\ cacheObs = NoCacheObs
    /\ written = <<>>
    /\ NoHealth
    /\ NoManager
    /\ threads = [t \in ThreadIds |-> IdleMemoryThread]

NextMemoryThreads ==
    \/ \E t \in ThreadIds, op \in {"get", "set", "delete"}, key \in ThreadKeys :
          MemoryStart(t, op, key, MaxThreadCalls)
    \/ \E t \in ThreadIds : SetTest(t)
    \/ \E t \in ThreadIds : EvictChoose(t)
    \/ \E t \in ThreadIds : EvictCache(t)
    \/ \E t \in ThreadIds : EvictAccess(t)
    \/ \E t \in ThreadIds : SetItem(t)
    \/ \E t \in ThreadIds : SetAccess(t)
    \/ \E t \in ThreadIds : DeleteTest(t)
    \/ \E t \in ThreadIds : DeleteCache(t)
    \/ \E t \in ThreadIds : DeleteAccessTest(t)
    \/ \E t \in ThreadIds : DeleteAccess(t)
    \/ \E t \in ThreadIds : GetTest(t)
    \/ \E t \in ThreadIds : GetItem(t)
    \/ \E t \in ThreadIds : GetHit(t)
    \/ \E t \in ThreadIds : GetExpired(t)
    \/ ThreadTick(MaxThreadTime)

SpecMemoryThreads == InitMemoryThreads /\ [][NextMemoryThreads]_vars

\* ------------------------------------------------------ breaker properties
Called == lastCall.result # "none"
Post == heap[lastCall.id]
ClassifiedFailure ==
    lastCall.result = "raise" /\ Classified(lastCall.raised, lastCall.pre.config)
UnclassifiedFailure ==
    lastCall.result = "raise" /\ ~Classified(lastCall.raised, lastCall.pre.config)
Elapsed == lastCall.start - lastCall.pre.last_failure_time

\* C1: starting CLOSED with failure_count 0, after fewer than failure_threshold
\* consecutive classified failures (no success in between) the breaker is still
\* CLOSED, and right after the failure_threshold-th one it is OPEN.
C1_ThresholdOpens ==
    \A i \in DOMAIN heap :
        LET k == hist[i].run
            ft == heap[i].config.failure_threshold
        IN k # None =>
             /\ k < ft => heap[i].state = "CLOSED"
             /\ (k = ft /\ lastCall.id = i /\ ClassifiedFailure) => heap[i].state = "OPEN"

C1_Witness ==
    /\ Called /\ ClassifiedFailure
    /\ Post.config.failure_threshold = 2
    /\ hist[lastCall.id].run = 2
    /\ lastCall.pre.state = "CLOSED" /\ Post.state = "OPEN"

\* C2: a call on an OPEN breaker whose recovery timeout has not elapsed raises
\* CircuitBreakerOpenException, does not invoke the operation and leaves every
\* field of the breaker unchanged.
C2_OpenRejects ==
    (/\ Called
     /\ lastCall.pre.state = "OPEN"
     /\ lastCall.pre.last_failure_time # None
     /\ Elapsed < lastCall.pre.config.recovery_timeout)
    => /\ lastCall.raised = "CircuitBreakerOpenException"
       /\ lastCall.invoked = 0
       /\ Post = lastCall.pre

C2_Witness ==
    /\ lastCall.result = "rejected"
    /\ lastCall.pre.config.recovery_timeout = 2
    /\ Elapsed = 1

\* C3: a call on an OPEN breaker whose recovery timeout has elapsed invokes the
\* operation exactly once, with the breaker HALF_OPEN at that moment; no call
\* invokes the operation more than once.
C3_ProbeOnce ==
    /\ lastCall.invoked <= 1
    /\ (/\ Called
        /\ lastCall.pre.state = "OPEN"
        /\ lastCall.pre.last_failure_time # None
        /\ Elapsed >= lastCall.pre.config.recovery_timeout)
       => lastCall.invoked = 1 /\ lastCall.atInvoke = "HALF_OPEN"

C3_Witness ==
    /\ Called
    /\ lastCall.pre.state = "OPEN"
    /\ Elapsed = lastCall.pre.config.recovery_timeout
    /\ lastCall.invoked = 1

\* C4: after a classified failure of a call made in HALF_OPEN the breaker is
\* OPEN, success_count is 0 and last_failure_time is the time of the failure.
C4_HalfOpenFailureReopens ==
    (Called /\ ClassifiedFailure /\ lastCall.atInvoke = "HALF_OPEN")
    => /\ Post.state = "OPEN"
       /\ Post.success_count = 0
       /\ Post.last_failure_time = lastCall.start + lastCall.duration

\* C5: the call that takes a breaker from HALF_OPEN to CLOSED is at least the
\* success_threshold-th successful call since the breaker last entered
\* HALF_OPEN, and leaves both counters 0.
C5_CloseNeedsFreshSuccesses ==
    (Called /\ lastCall.atInvoke = "HALF_OPEN" /\ Post.state = "CLOSED")
    => /\ hist[lastCall.id].probeOk >= Post.config.success_threshold
       /\ Post.failure_count = 0
       /\ Post.success_count = 0

\* C6: a successful call while CLOSED leaves failure_count 0, and a breaker on
\* which no run of classified failures between two successes has reached
\* failure_threshold is CLOSED.
C6_ShortRunsStayClosed ==
    /\ \A i \in DOMAIN heap :
          hist[i].maxRun < heap[i].config.failure_threshold => heap[i].state = "CLOSED"
    /\ (Called /\ lastCall.result = "ok" /\ lastCall.pre.state = "CLOSED")
          => Post.failure_count = 0

C6_Witness ==
    /\ Called /\ ClassifiedFailure
    /\ Post.config.failure_threshold = 2
    /\ hist[lastCall.id].maxRun = 1
    /\ lastCall.pre.failure_count = 0
    /\ lastCall.pre.last_failure_time # None
    /\ Post.state = "CLOSED"

\* C7 as claimed: a call whose operation raises an unclassified failure
\* re-raises it and leaves every field of the breaker as before the call.
C7_UnclassifiedLeavesUnchanged ==
    (Called /\ UnclassifiedFailure)
    => lastCall.raised \in Raisable /\ Post = lastCall.pre

\* C7 as amended: such a call re-raises the failure and leaves the breaker as
\* it was when the operation was invoked: counters and timestamps as before
\* the call, and the state as before the call except that an OPEN breaker
\* whose recovery timeout had elapsed is left HALF_OPEN.
C7_UnclassifiedKeepsCounters ==
    (Called /\ UnclassifiedFailure)
    => /\ lastCall.raised \in Raisable
       /\ Post = [lastCall.pre EXCEPT
                     !.state = IF @ = "OPEN" THEN "HALF_OPEN" ELSE @]

C7_Witness ==
    /\ Called /\ UnclassifiedFailure
    /\ lastCall.pre.state = "OPEN"
    /\ Post.state = "HALF_OPEN"
    /\ Post.failure_count = lastCall.pre.failure_count

\* C8: an operation that runs longer than config.timeout is handled as a
\* classified failure: failure_count is incremented, last_failure_time is
\* recorded and the breaker opens once the threshold is reached.
C8_TimeoutCountsAsFailure ==
    (Called /\ lastCall.invoked = 1 /\ lastCall.duration > lastCall.pre.config.timeout)
    => /\ Post.failure_count = lastCall.pre.failure_count + 1
       /\ Post.last_failure_time # None
       /\ Post.failure_count >= Post.config.failure_threshold => Post.state = "OPEN"

\* C9: every name get_circuit_breaker has been called with is registered to one
\* instance, the only one ever returned for it; different names have different
\* instances; the instance has the config of the first access (the default one
\* when none was passed); and a later access changes no registered instance.
C9_Registered ==
    /\ \A n \in DOMAIN regHist :
          /\ n \in DOMAIN _circuit_breakers
          /\ regHist[n].returned = {_circuit_breakers[n]}
          /\ heap[_circuit_breakers[n]].name = n
          /\ heap[_circuit_breakers[n]].config =
                IF regHist[n].firstArg = {} THEN CircuitBreakerConfig
                ELSE CHOOSE c \in regHist[n].firstArg : TRUE
    /\ \A n, m \in DOMAIN _circuit_breakers :
          n # m => _circuit_breakers[n] # _circuit_breakers[m]
    /\ lastGet.name \in DOMAIN _circuit_breakers => lastGet.ret = _circuit_breakers[lastGet.name]

C9_Kept ==
    \A n \in DOMAIN _circuit_breakers :
        /\ n \in DOMAIN _circuit_breakers'
        /\ _circuit_breakers'[n] = _circuit_breakers[n]
        /\ lastCall' = lastCall => heap'[_circuit_breakers[n]] = heap[_circuit_breakers[n]]

C9_RegistryOneInstancePerName == []C9_Registered /\ [][C9_Kept]_vars

C9_Witness ==
    /\ lastGet.existed
    /\ lastGet.config # regHist[lastGet.name].firstArg
    /\ heap[lastGet.ret].failure_count > 0
    /\ DOMAIN _circuit_breakers = Names

\* -------------------------------------------------------- cache properties
\* C10: with every backend working, a get of a key whose latest set returned
\* true with a positive ttl, and that was not deleted since, returns the value
\* of that set at every time up to set time + ttl and a miss at every later time.
C10_RoundTrip ==
    (/\ cacheObs.op = "get"
     /\ cacheObs.key \in DOMAIN written
     /\ written[cacheObs.key].clean
     /\ written[cacheObs.key].ttl >= 1)
    => LET w == written[cacheObs.key] IN
       /\ now <= w.at + w.ttl => cacheObs.ret = w.value
       /\ now > w.at + w.ttl => cacheObs.ret = PyNone

\* What backend b stores, by key; the value stored under key k; everything
\* backend b keeps
Stored(b, st) ==
    IF b = "redis" THEN st.redis ELSE IF b = "dynamodb" THEN st.dynamodb ELSE st._cache
StoredValue(b, st, k) ==
    IF b = "redis" THEN st.redis[k].data[2].value ELSE Stored(b, st)[k].value
BackendState(b, st) ==
    IF b = "memory" THEN <<st._cache, st._access_times>> ELSE <<Stored(b, st)>>

\* The positions in the chain of the backends outside faults whose get gives,
\* at time t, an item for key that is not expired; the value that get gives
Holders(chain, st, key, t, faults) ==
    {i \in 1..Len(chain) :
        /\ chain[i] \notin faults
        /\ LET item == BackendGet(chain[i], st, key, t).item IN
           item # <<>> /\ t <= item[1].expires_at}
HeldValue(b, st, key, t) == BackendGet(b, st, key, t).item[1].value
SetMin(S) == CHOOSE x \in S : \A y \in S : x <= y

\* C11: a get during which no backend raises returns the value of the first
\* backend of the chain that holds an unexpired item for the key (a miss when
\* there is none) and leaves every later backend as it was; in no backend
\* does it add a key or change the value stored under a key.
C11_GetStep ==
    (cacheObs'.op = "get" /\ cacheObs'.faults = {})
    => LET chain == cacheConfig.backends
           key == cacheObs'.key
           holders == Holders(chain, cache, key, now, {})
       IN
       /\ IF holders = {}
          THEN cacheObs'.ret = PyNone /\ cacheObs'.hit = 0
          ELSE LET f == SetMin(holders) IN
               /\ cacheObs'.hit = f
               /\ cacheObs'.ret = HeldValue(chain[f], cache, key, now)
               /\ \A j \in (f + 1)..Len(chain) :
                     BackendState(chain[j], cache') = BackendState(chain[j], cache)
       /\ \A i \in 1..Len(chain) :
             /\ DOMAIN Stored(chain[i], cache') \subseteq DOMAIN Stored(chain[i], cache)
             /\ \A k \in DOMAIN Stored(chain[i], cache') :
                   StoredValue(chain[i], cache', k) = StoredValue(chain[i], cache, k)

C11_FirstHolderNoWriteBack == [][C11_GetStep]_vars

C11_Witness ==
    /\ cacheObs.op = "get" /\ cacheObs.faults = {}
    /\ Len(cacheConfig.backends) = 3
    /\ cacheObs.hit = 1
    /\ cacheObs.key \in DOMAIN cache._cache
    /\ cache._cache[cacheObs.key].value # cacheObs.ret
    /\ cache._cache[cacheObs.key].hits = 0

\* C12: a get during which some backends raise returns, without raising, the
\* value of the first of the other backends that holds an unexpired item for
\* the key (a miss when none of them does), and leaves the raising backends
\* as they were.
C12_GetStep ==
    (cacheObs'.op = "get" /\ cacheObs'.faults # {})
    => LET chain == cacheConfig.backends
           key == cacheObs'.key
           holders == Holders(chain, cache, key, now, cacheObs'.faults)
       IN
       /\ IF holders = {}
          THEN cacheObs'.ret = PyNone /\ ~cacheObs'.ok
          ELSE /\ cacheObs'.ok
               /\ cacheObs'.hit = SetMin(holders)
               /\ cacheObs'.ret = HeldValue(chain[SetMin(holders)], cache, key, now)
       /\ \A i \in 1..Len(chain) :
             chain[i] \in cacheObs'.faults
             => BackendState(chain[i], cache') = BackendState(chain[i], cache)

C12_ErrorIsMiss == [][C12_GetStep]_vars

C12_Witness ==
    /\ cacheObs.op = "get" /\ cacheObs.faults = {"redis"}
    /\ cacheConfig.backends[1] = "redis"
    /\ cacheObs.key \in DOMAIN cache.redis
    /\ cacheObs.hit = 2
    /\ cacheObs.ret \in FaultValues

\* C13: after a set, every backend of the chain that did not fail holds the
\* new item, whichever backends before it failed; a backend that failed is as
\* it was; and set returns true exactly when some backend did not fail.
C13_SetStep ==
    cacheObs'.op = "set"
    => LET chain == cacheConfig.backends
           key == cacheObs'.key
       IN
       /\ \A i \in 1..Len(chain) :
             IF chain[i] \in cacheObs'.faults
             THEN BackendState(chain[i], cache') = BackendState(chain[i], cache)
             ELSE LET item == BackendGet(chain[i], cache', key, now).item IN
                  /\ item # <<>>
                  /\ item[1].created_at = now
                  /\ item[1].expires_at = now + MaxTtl
                  /\ item[1].value = written'[key].value
       /\ cacheObs'.ok <=> \E i \in 1..Len(chain) : chain[i] \notin cacheObs'.faults

C13_SetWritesEveryBackend == [][C13_SetStep]_vars

C13_Witness ==
    /\ cacheObs.op = "set" /\ cacheObs.faults = {"redis"} /\ cacheObs.ok
    /\ cacheConfig.backends = <<"redis", "dynamodb", "memory">>
    /\ cacheObs.key \in DOMAIN cache.redis
    /\ HeldValue("dynamodb", cache, cacheObs.key, now) = written[cacheObs.key].value
    /\ cache._cache[cacheObs.key].value = written[cacheObs.key].value
    /\ StoredValue("redis", cache, cacheObs.key) # StoredValue("dynamodb", cache, cacheObs.key)

\* C17: a clear, with or without a namespace, leaves what the Redis and the
\* DynamoDB backend store as it was, and for every key that one of them holds
\* unexpired a get made right after the clear returns the value held by the
\* first of them in the chain.
C17_ClearStep ==
    cacheObs'.op = "clear"
    => LET chain == cacheConfig.backends IN
       /\ cache'.redis = cache.redis
       /\ cache'.dynamodb = cache.dynamodb
       /\ \A key \in DOMAIN cache.redis \cup DOMAIN cache.dynamodb :
             LET remote == {i \in Holders(chain, cache, key, now, {}) :
                               chain[i] # "memory"}
             IN remote # {}
                => GetFrom(1, chain, cache', key, now, {}).ret
                      = HeldValue(chain[SetMin(remote)], cache, key, now)

C17_ClearOnlyMemory == [][C17_ClearStep]_vars

C17_Witness ==
    /\ cacheObs.op = "clear" /\ cacheObs.key = <<"ns">>
    /\ cache._cache = <<>>
    /\ \E key \in DOMAIN cache.redis \cap DOMAIN cache.dynamodb :
          /\ Holders(cacheConfig.backends, cache, key, now, {}) = {1, 2}
          /\ key \in DOMAIN written
          /\ HeldValue("redis", cache, key, now) = written[key].value

\* ------------------------------------------------ memory backend properties
\* The last-access timestamp the memory backend keeps for a stored key
AccessTime(st, k) == (CHOOSE e \in Range(st._access_times) : e[1] = k)[2]
MemKeys(st) == DOMAIN st._cache
Evicted == MemKeys(cache) \ MemKeys(cache')
\* the step is a get, set or delete of key k
OpOn(k) == cacheObs'.op \in {"get", "set", "delete"} /\ cacheObs'.key = k
\* the step is the passage of time
TimePasses == now' # now

\* a successful get of a key sets the key's timestamp to the time of the get
\* and adds one to the item's hit counter; a set of a key sets the key's
\* timestamp to the time of the set; no operation changes the timestamp of a
\* key it is not about
C14_Refresh ==
    /\ (cacheObs'.op = "get" /\ cacheObs'.ok)
          => /\ AccessTime(cache', cacheObs'.key) = now
             /\ cache'._cache[cacheObs'.key].hits = cache._cache[cacheObs'.key].hits + 1
    /\ cacheObs'.op = "set" => AccessTime(cache', cacheObs'.key) = now
    /\ \A k \in MemKeys(cache) \cap MemKeys(cache') :
          ~OpOn(k) => AccessTime(cache', k) = AccessTime(cache, k)

\* C14: a set of a key that is not stored, made when the memory backend holds
\* max_items entries, evicts exactly one entry, one whose last-access
\* timestamp no other entry's is older than; timestamps and hit counters
\* are kept as C14_Refresh says.
C14_SetStep ==
    /\ C14_Refresh
    /\ (/\ cacheObs'.op = "set"
        /\ cacheObs'.key \notin MemKeys(cache)
        /\ Cardinality(MemKeys(cache)) = cacheConfig.max_memory_items)
       => /\ Cardinality(Evicted) = 1
          /\ \A e \in Evicted : \A k \in MemKeys(cache) :
                AccessTime(cache, e) <= AccessTime(cache, k)

C14_EvictsLeastRecentlyUsed == [][C14_SetStep]_vars

\* C14 for max_items >= 1
C14_EvictsLeastRecentlyUsedWhenPositive ==
    [][cacheConfig.max_memory_items >= 1 => C14_SetStep]_vars

\* C15: the memory backend stores at most max_memory_items entries.
C15_AtMostMaxItems ==
    Cardinality(MemKeys(cache)) <= cacheConfig.max_memory_items

\* C15 for max_memory_items >= 1; with 0 it stores at most one entry
C15_AtMostMaxItemsWhenPositive ==
    Cardinality(MemKeys(cache)) <= Max(cacheConfig.max_memory_items, 1)

\* an entry that is stored and expired before the step
ExpiredEntries == {k \in MemKeys(cache) : IsExpired(cache._cache[k], now)}
Kept(k) == k \in MemKeys(cache') /\ cache'._cache[k] = cache._cache[k]

\* a get of an expired entry's key removes it and returns a miss; a set of
\* its key stores the new item in its place
C16_OwnKey ==
    \A k \in ExpiredEntries :
        /\ (cacheObs'.op = "get" /\ cacheObs'.key = k)
              => k \notin MemKeys(cache') /\ cacheObs'.ret = PyNone
        /\ (cacheObs'.op = "set" /\ cacheObs'.key = k)
              => k \in MemKeys(cache') /\ cache'._cache[k].created_at = now

\* C16 as claimed: an expired entry is removed by a get of its key and
\* overwritten by a set of its key; the passage of time and the gets, sets
\* and deletes of other keys leave it stored as it is.
C16_ClaimedStep ==
    /\ C16_OwnKey
    /\ \A k \in ExpiredEntries :
          (TimePasses \/ \E k2 \in MemKeys(cache) \cup MemKeys(cache') \cup {cacheObs'.key} :
                            k2 # k /\ OpOn(k2))
          => Kept(k)

C16_AmendedStep ==
    /\ C16_OwnKey
    /\ \A k \in ExpiredEntries :
          /\ TimePasses => Kept(k)
          /\ (cacheObs'.op \in {"get", "delete"} /\ cacheObs'.key # k) => Kept(k)
          /\ (cacheObs'.op = "set" /\ cacheObs'.key # k)
                => \/ Kept(k)
                   \/ /\ k \notin MemKeys(cache')
                      /\ cacheObs'.key \notin MemKeys(cache)
                      /\ Cardinality(MemKeys(cache)) >= cacheConfig.max_memory_items
                      /\ \A k2 \in MemKeys(cache) :
                            AccessTime(cache, k) <= AccessTime(cache, k2)

Selected == hcObs.op = "select" \/ (hcObs.op = "cycle" /\ hcObs.status = "success")
HealthyRecords ==
    {i \in 1..Len(hcObs.configs) : hcObs.configs[i].status = "healthy"}
PrimaryReportsHealthy ==
    \E i \in HealthyRecords : hcObs.configs[i].region_name = PRIMARY_REGION

\* C18: when the primary's record reports healthy, the selection returns the
\* primary, wherever the record stands in the list and whatever the other
\* records report.
C18_PrimaryWhenHealthy ==
    (Selected /\ PrimaryReportsHealthy) => hcObs.active_region = PRIMARY_REGION

C18_Witness ==
    /\ hcObs.op = "select"
    /\ Len(hcObs.configs) = 3
    /\ HealthyRecords = {1, 2, 3}
    /\ hcObs.configs[3].region_name = PRIMARY_REGION
    /\ hcObs.active_region = PRIMARY_REGION

\* C19: when the primary's record does not report healthy and another record
\* does, the selection returns the region of the healthy record with the
\* lowest priority number, in whatever order the records are passed.
C19_LowestPriorityHealthy ==
    (Selected /\ ~PrimaryReportsHealthy /\ HealthyRecords # {})
    => \E i \in HealthyRecords :
          /\ hcObs.active_region = hcObs.configs[i].region_name
          /\ \A j \in HealthyRecords :
                hcObs.configs[i].priority <= hcObs.configs[j].priority

\* C19 for the lists lambda_handler builds (the primary's record before the
\* secondary's)
C19_LowestPriorityHealthyInCycle ==
    hcObs.op = "cycle" => C19_LowestPriorityHealthy

\* C20: when no record reports healthy (the list may be empty), the selection
\* returns the primary; and a cycle in which every region was recorded or its
\* put_item ended with ClientError, and the metrics were accepted, ends with
\* status success, the primary as active region and no failover.
C20_NoHealthyFallsBack ==
    HealthyRecords = {}
    => /\ hcObs.op = "select" => hcObs.active_region = PRIMARY_REGION
       /\ (/\ hcObs.op = "cycle"
           /\ hcObs.metrics = "ok"
           /\ \A r \in {PRIMARY_REGION, SECONDARY_REGION} : hcObs.puts[r] # "Exception")
          => /\ hcObs.status = "success"
             /\ hcObs.active_region = PRIMARY_REGION
             /\ ~hcObs.failover_performed

C20_Witness ==
    /\ hcObs.op = "cycle"
    /\ Len(hcObs.configs) = 2
    /\ HealthyRecords = {}
    /\ hcObs.puts["active_region"] = "Exception"
    /\ hcObs.status = "success"
    /\ hcObs.active_region = PRIMARY_REGION
    /\ DOMAIN config_table = {PRIMARY_REGION, SECONDARY_REGION}

\* ------------------------------------------------- properties: CLOSED breaker
\* C30: a breaker whose failure_threshold is at least 1 and whose state is
\* CLOSED has success_count 0 and failure_count below failure_threshold.
C30_ClosedIsReset ==
    \A i \in DOMAIN heap :
        (heap[i].config.failure_threshold >= 1 /\ heap[i].state = "CLOSED")
            => /\ heap[i].success_count = 0
               /\ heap[i].failure_count < heap[i].config.failure_threshold

\* a call made in HALF_OPEN has just closed a breaker that had been opened
C30_Witness ==
    /\ Called /\ lastCall.result = "ok"
    /\ lastCall.atInvoke = "HALF_OPEN"
    /\ lastCall.pre.failure_count >= Post.config.failure_threshold
    /\ Post.state = "CLOSED"

\* -------------------------------------------- properties: the region's check
Checked == hcObs.op = "check"
CheckResult == hcObs.health_status[1]

\* C24: the check returns status healthy for every 200 response, with or
\* without a json body, and status unhealthy with an error for every other
\* response and every exception of the request.
C24_Every200IsHealthy ==
    Checked =>
        IF hcObs.probe \in {"200 json", "200 no json"}
        THEN CheckResult.status = "healthy"
        ELSE CheckResult.status = "unhealthy" /\ CheckResult.error # "absent"

\* C24 for every answer but a 200 whose body is not json: that one gives
\* status unhealthy with the text of the parse error
C24_HealthyWithJsonBody ==
    Checked =>
        IF hcObs.probe = "200 json"
        THEN CheckResult.status = "healthy"
        ELSE CheckResult.status = "unhealthy" /\ CheckResult.error # "absent"

\* --------------------------------------------- properties: the health cycle
Cycle == hcObs.op = "cycle"
\* the regions the cycle probed and whose update_region_config returned
Probed == {hcObs.configs[i].region_name : i \in 1..Len(hcObs.configs)}
ProbeResult(r) ==
    hcObs.configs[CHOOSE i \in 1..Len(hcObs.configs) : hcObs.configs[i].region_name = r]
\* the table holds the result of this cycle's check of r under the key r
Recorded(r) ==
    /\ r \in DOMAIN config_table
    /\ config_table[r].region_name = r
    /\ config_table[r].status = ProbeResult(r).status
    /\ config_table[r].last_check = ProbeResult(r).last_check

\* C25: after a cycle the table holds, for every region whose url is set, one
\* record under the region's name with the status and last_check of the check
\* the cycle has made of it.
C25_LatestCheckPersisted ==
    (Cycle /\ hcObs.status = "success") =>
        \A r \in hcObs.urls : r \in Probed /\ Recorded(r)

\* C25 for the regions whose put_item succeeded
C25_LatestCheckPersistedWhenPutSucceeds ==
    (Cycle /\ hcObs.status = "success") =>
        \A r \in hcObs.urls : r \in Probed /\ (hcObs.puts[r] = "ok" => Recorded(r))

\* C26: in a cycle every region whose url is set is probed and, unless its own
\* put_item failed, recorded, whatever happens to the other region.
C26_RegionsIndependent ==
    Cycle =>
        \A r \in hcObs.urls :
            /\ hcObs.puts[r] # "Exception" => r \in Probed
            /\ hcObs.puts[r] = "ok" => r \in Probed /\ Recorded(r)

\* C26 when update_region_config raises for no region
C26_RegionsIndependentUnlessPutRaises ==
    (Cycle /\ \A q \in hcObs.urls : hcObs.puts[q] # "Exception") =>
        \A r \in hcObs.urls :
            r \in Probed /\ (hcObs.puts[r] = "ok" => Recorded(r))

\* ------------------------------------------- properties: the failover manager
\* a step that is a call on the manager (the clock's steps leave both alone)
ManagerCalled == managerVars' # managerVars
\* a step of one manager object: initialize_multi_region replaces the object
SameManager == mgrObs'.op # "initialize_multi_region"
Switched == SameManager /\ manager'.current_region # manager.current_region
FailoverCall == ManagerCalled /\ mgrObs'.op = "perform_failover"

\* C21 as claimed: current_region changes only in a perform_failover call at
\* which the last failover_threshold checks of the current region, whoever
\* made them, all found it unhealthy, and at which more than the cooldown has
\* passed since the previous failover; two changes are more than the cooldown
\* apart.
C21_ClaimedStep ==
    Switched =>
        /\ FailoverCall
        /\ mgrObs.runAny + 1 >= manager.config.failover_threshold
        /\ now - manager.last_failover_time > Cooldown
        /\ manager'.last_failover_time - manager.last_failover_time > Cooldown

C21_SwitchAfterUnhealthyChecks == [][C21_ClaimedStep]_vars

\* C21 as amended: the checks that count are those of should_failover; a
\* healthy check made by check_all_regions_health or get_status in between
\* does not reset the count.
C21_AmendedStep ==
    Switched =>
        /\ FailoverCall
        /\ mgrObs.run + 1 >= manager.config.failover_threshold
        /\ now - manager.last_failover_time > Cooldown
        /\ manager'.last_failover_time - manager.last_failover_time > Cooldown

C21_SwitchAfterUnhealthyFailoverChecks == [][C21_AmendedStep]_vars

\* the manager has failed over and, a cooldown later, back to the primary
C21_Witness ==
    /\ mgrObs.op = "perform_failover"
    /\ mgrObs.ret = "us-east-1"
    /\ manager.current_region = "us-east-1"
    /\ manager.config.failover_threshold = 2
    /\ manager.last_failover_time > StartTime + Cooldown

\* C22: a perform_failover that switches returns the new region and leaves
\* failure_count 0 and last_failover_time the time of the switch.
C22_SwitchStep ==
    (FailoverCall /\ (mgrObs'.ret # NoRegion \/ Switched)) =>
        /\ mgrObs'.ret = manager'.current_region
        /\ manager'.current_region # manager.current_region
        /\ manager'.failure_count = 0
        /\ manager'.last_failover_time = now'

C22_SwitchResets == [][C22_SwitchStep]_vars

C22_Witness ==
    /\ mgrObs.op = "perform_failover"
    /\ mgrObs.ret = "us-west-2"
    /\ mgrObs.count = 1
    /\ manager.last_failover_time = StartTime + Cooldown + 1

\* C23: a perform_failover made while the current region is healthy returns
\* None, leaves current_region and last_failover_time as they were and
\* failure_count 0, whatever failure_count was before.
C23_HealthyStep ==
    (FailoverCall /\ mgrObs'.healthy) =>
        /\ mgrObs'.ret = NoRegion
        /\ manager'.current_region = manager.current_region
        /\ manager'.last_failover_time = manager.last_failover_time
        /\ manager'.failure_count = 0

C23_HealthyIsNoOp == [][C23_HealthyStep]_vars

\* a call on a healthy region that found failure_count above 0
C23_Witness ==
    /\ mgrObs.op = "perform_failover"
    /\ mgrObs.healthy
    /\ mgrObs.count > 0
    /\ manager.failure_count = 0

\* C29: a manager constructed in a fresh process resumes with the current
\* region and the last_failover_time the manager before it had.
C29_RestartStep ==
    (ManagerCalled /\ mgrObs'.op = "initialize_multi_region") =>
        /\ manager'.current_region = manager.current_region
        /\ manager'.last_failover_time = manager.last_failover_time

C29_RestartKeepsFailover == [][C29_RestartStep]_vars

\* ------------------------------------------- properties: overlapping calls
AllIdle == \A t \in DOMAIN threads : threads[t].pc = "idle"
RECURSIVE SumOver(_, _)
SumOver(f, todo) ==
    IF todo = {} THEN 0
    ELSE LET t == CHOOSE t \in todo : TRUE IN f[t] + SumOver(f, todo \ {t})
CompletedFailures == SumOver([t \in DOMAIN threads |-> threads[t].failures], DOMAIN threads)
CompletedSuccesses == SumOver([t \in DOMAIN threads |-> threads[t].successes], DOMAIN threads)

\* C27: overlapping calls leave the breaker as some sequential order of them
\* does: when every call has returned and none was a success, failure_count is
\* the number of classified failures, and the breaker has left CLOSED once that
\* number has reached failure_threshold.
C27_NoLostUpdate ==
    (AllIdle /\ CompletedSuccesses = 0) =>
        /\ heap[1].failure_count = CompletedFailures
        /\ CompletedFailures >= heap[1].config.failure_threshold
               => heap[1].state # "CLOSED"

\* ------------------------------- properties: overlapping cache operations
EvictionFailed ==
    \E t \in DOMAIN threads :
        threads[t].raised \in {"del self._cache[oldest_key]",
                               "del self._access_times[oldest_key]"}

\* C28: with overlapping get, set and delete calls, whenever no call is in
\* progress the item map and the access-time map have the same keys, no
\* eviction has raised KeyError, and at most max_items entries are stored.
C28_ConsistentWhenIdle ==
    AllIdle =>
        /\ DOMAIN cache._cache = {cache._access_times[i][1] : i \in 1..Len(cache._access_times)}
        /\ ~EvictionFailed
        /\ Cardinality(DOMAIN cache._cache) <= cacheConfig.max_memory_items

\* C28, the eviction alone
C28_EvictionNeverFails == ~EvictionFailed

\* C28, the size alone
C28_AtMostMaxItemsWhenIdle ==
    AllIdle => Cardinality(DOMAIN cache._cache) <= cacheConfig.max_memory_items

\* ------------------------------------------------- breaker: state invariant
\* C31: a breaker that is OPEN or HALF_OPEN has failure_count >=
\* failure_threshold and a last_failure_time; so a classified failure of a call
\* made in HALF_OPEN leaves the breaker OPEN, and an OPEN breaker never answers
\* the reset test through its last_failure_time-is-None branch.
C31_OpenHasFailures ==
    /\ \A i \in DOMAIN heap :
          heap[i].state \in {"OPEN", "HALF_OPEN"}
          => /\ heap[i].failure_count >= heap[i].config.failure_threshold
             /\ heap[i].last_failure_time # None
    /\ (Called /\ ClassifiedFailure /\ lastCall.atInvoke = "HALF_OPEN")
       => Post.state = "OPEN"

\* a call in HALF_OPEN has succeeded without closing, and the breaker holds
\* more failures than its threshold after a failed probe before it
C31_Witness ==
    /\ Called
    /\ lastCall.result = "ok"
    /\ Post.state = "HALF_OPEN"
    /\ Post.failure_count > Post.config.failure_threshold

\* ---------------------------------------------------- breaker: state changes
\* the changes of state a breaker may make, one assignment of self.state each
StateChanges ==
    {<<"CLOSED", "OPEN">>, <<"OPEN", "HALF_OPEN">>,
     <<"HALF_OPEN", "CLOSED">>, <<"HALF_OPEN", "OPEN">>}
MayChange(from, to) == from = to \/ <<from, to>> \in StateChanges

\* C32: a breaker's state changes only within a call on it, from the state
\* before the call to the state func is invoked in and from that to the state
\* after the call, each change being CLOSED to OPEN, OPEN to HALF_OPEN,
\* HALF_OPEN to CLOSED or HALF_OPEN to OPEN; a breaker that was OPEN is CLOSED
\* after a call only if func was invoked in HALF_OPEN and returned.
C32_CallStep ==
    \A i \in DOMAIN heap :
        heap'[i].state # heap[i].state
        => /\ lastCall'.id = i
           /\ lastCall'.pre = heap[i]
           /\ lastCall'.invoked = 1
           /\ MayChange(heap[i].state, lastCall'.atInvoke)
           /\ MayChange(lastCall'.atInvoke, heap'[i].state)
           /\ (heap[i].state = "OPEN" /\ heap'[i].state = "CLOSED")
              => (lastCall'.atInvoke = "HALF_OPEN" /\ lastCall'.result = "ok")
C32_OnlyFourChanges == [][C32_CallStep]_vars

\* one call has taken an OPEN breaker through HALF_OPEN to CLOSED
C32_Witness ==
    /\ Called
    /\ lastCall.pre.state = "OPEN"
    /\ lastCall.atInvoke = "HALF_OPEN"
    /\ Post.state = "CLOSED"

\* ----------------------------------------------------- breaker: recovery
\* C33: when from some time on every operation returns, calls keep being made
\* and time advances, the breaker is eventually CLOSED and stays CLOSED.
C33_Recovers == <>[](heap[1].state = "CLOSED")

\* after the failures have ended, a call has closed a breaker that was OPEN
C33_Witness ==
    /\ Called
    /\ lastCall.start > MaxFailTime
    /\ lastCall.pre.state = "OPEN"
    /\ lastCall.result = "ok"
    /\ Post.state = "CLOSED"

\* ------------------------------------------------ cache: read after a write
\* a get, during which no backend raises, of the key of the set or delete made
\* just before it
GetAfterWrite ==
    /\ cacheObs.op \in {"set", "delete"}
    /\ cacheObs.ok
    /\ cacheObs'.op = "get"
    /\ cacheObs'.key = cacheObs.key
    /\ cacheObs'.faults = {}
FreshRead ==
    IF cacheObs.op = "set" THEN cacheObs'.ret = written[cacheObs.key].value
    ELSE cacheObs'.ret = PyNone

\* C34: a get that follows a set that returned true returns the value set, and
\* a get that follows a delete that returned true returns a miss, also when
\* backends of the chain failed during that set or delete.
C34_GetStep == GetAfterWrite => FreshRead
C34_ReadsLatestWrite == [][C34_GetStep]_vars

\* C34 for a set or delete during which no backend failed
C34_CleanStep == (GetAfterWrite /\ cacheObs.faults = {}) => FreshRead
C34_ReadsLatestCleanWrite == [][C34_CleanStep]_vars

\* ------------------------------------------------------ cache: time to live
\* the set made last, as remembered in written, and the item it stored in the
\* memory backend
SetDone == cacheObs.op = "set" /\ cacheObs.ok
SetItemStored == cache._cache[cacheObs.key]
ExpiryFromTtl(ttl_seconds) ==
    SetItemStored.expires_at =
        written[cacheObs.key].at
        + (IF ttl_seconds = None THEN cacheConfig.ttl_seconds ELSE ttl_seconds)

\* C35: the item a set stores has created_at = set time <= expires_at =
\* set time + the ttl_seconds passed, for 0 as for every other value passed,
\* and set time + the configured ttl_seconds when none is passed.
C35_ExpiryFromPassedTtl ==
    SetDone
    => /\ SetItemStored.created_at = written[cacheObs.key].at
       /\ SetItemStored.created_at <= SetItemStored.expires_at
       /\ ExpiryFromTtl(written[cacheObs.key].ttl)

\* C35 for every ttl_seconds but 0
C35_ExpiryFromNonZeroTtl ==
    (SetDone /\ written[cacheObs.key].ttl # 0)
    => /\ SetItemStored.created_at = written[cacheObs.key].at
       /\ SetItemStored.created_at <= SetItemStored.expires_at
       /\ ExpiryFromTtl(written[cacheObs.key].ttl)

\* ------------------------------------------------------- cache: clear
\* the keys that the calls of MemoryCalls made with namespace derive
KeysOf(namespace) ==
    {GenerateKey(cacheConfig, c[1], c[2]) : c \in {x \in MemoryCalls : x[1] = namespace}}
\* the memory backend after the step holds what it held, less the keys removed
MemoryLess(removed) ==
    /\ cache'._cache = [k \in DOMAIN cache._cache \ removed |-> cache._cache[k]]
    /\ cache'._access_times =
          SelectSeq(cache._access_times, LAMBDA e : e[1] \notin removed)

\* C36: clear(namespace) removes from the memory backend the entries stored
\* under that namespace and no other entry, whatever the two namespaces are;
\* clear() leaves _cache and _access_times empty.
C36_ClearStep ==
    cacheObs'.op = "clear"
    => IF cacheObs'.key = <<>>
       THEN cache'._cache = <<>> /\ cache'._access_times = <<>>
       ELSE MemoryLess(KeysOf(cacheObs'.key))
C36_ClearsOneNamespace == [][C36_ClearStep]_vars

\* C36 for the keys by their text: the entries removed are those whose key
\* starts with key_prefix:namespace:
C36_PrefixStep ==
    cacheObs'.op = "clear"
    => IF cacheObs'.key = <<>>
       THEN cache'._cache = <<>> /\ cache'._access_times = <<>>
       ELSE MemoryLess({k \in DOMAIN cache._cache :
                           StartsWith(k, <<cacheConfig.key_prefix, ":">>
                                         \o cacheObs'.key \o <<":">>)})
C36_ClearsByKeyPrefix == [][C36_PrefixStep]_vars

\* ------------------------------------------------ manager: one region's check
\* a call of check_region_health by itself, and the config of its region
RegionChecked == ManagerCalled /\ mgrObs'.op = "check_region_health"
CheckedIndex == RegionIndex(manager.config, mgrObs'.region)
CheckedConfig == manager.config.regions[CheckedIndex]
CheckedEnv == mgrObs'.env[1]
\* the probes the check makes after the /health request (or without one) pass
ResourceProbesPass ==
    /\ ~(CheckedConfig.runs_table # "" /\ CheckedEnv.table = "raise")
    /\ ~(CheckedConfig.artifacts_bucket # "" /\ CheckedEnv.bucket = "raise")
\* the region of the call after it is as before but for the two fields
CheckedAs(health_status) ==
    manager' = [manager EXCEPT
                   !.config.regions[CheckedIndex].health_status = health_status,
                   !.config.regions[CheckedIndex].last_health_check = now]

\* C37: check_region_health returns True and leaves the region healthy when
\* /health answers 200, or when no url is configured and the other probes
\* pass; it returns False and leaves the region unhealthy when /health answers
\* another status or a probe raises; either way last_health_check is the time
\* of the call; for a name that is not configured it returns False and
\* changes nothing.
C37_CheckStep ==
    RegionChecked
    => IF CheckedIndex = 0
       THEN mgrObs'.ret = "False" /\ manager' = manager
       ELSE IF \/ CheckedConfig.api_gateway_url # "" /\ CheckedEnv.http = "200"
               \/ CheckedConfig.api_gateway_url = "" /\ ResourceProbesPass
       THEN mgrObs'.ret = "True" /\ CheckedAs("healthy")
       ELSE mgrObs'.ret = "False" /\ CheckedAs("unhealthy")
C37_Non200IsUnhealthy == [][C37_CheckStep]_vars

\* C37 with an answer other than 200 handled as no answer: the region is
\* unhealthy only when a request raises
C37_RaiseStep ==
    RegionChecked
    => IF CheckedIndex = 0
       THEN mgrObs'.ret = "False" /\ manager' = manager
       ELSE IF \/ CheckedConfig.api_gateway_url # "" /\ CheckedEnv.http = "200"
               \/ /\ ~(CheckedConfig.api_gateway_url # "" /\ CheckedEnv.http = "raise")
                  /\ ResourceProbesPass
       THEN mgrObs'.ret = "True" /\ CheckedAs("healthy")
       ELSE mgrObs'.ret = "False" /\ CheckedAs("unhealthy")
C37_UnhealthyOnlyWhenRaised == [][C37_RaiseStep]_vars

\* ------------------------------------------ health checker: the active marker
\* the cycle of this step has written the active_region marker
MarkerWritten == hcObs'.op = "cycle" /\ hcObs'.failover_performed
\* the records of a call with the given status for the primary
PrimaryObserved(obs, status) ==
    \E i \in 1..Len(obs.configs) :
        /\ obs.configs[i].region_name = PRIMARY_REGION
        /\ obs.configs[i].status = status

\* C38: the marker is written, naming another region than the primary, only
\* after consecutive cycles that observed the primary unhealthy: the cycle
\* that writes it and the cycle before it both did, so one unhealthy cycle
\* alone never writes it.
C38_WriteStep ==
    MarkerWritten
    => /\ PrimaryObserved(hcObs', "unhealthy")
       /\ hcObs.op = "cycle"
       /\ PrimaryObserved(hcObs, "unhealthy")
C38_MarkerIsHysteretic == [][C38_WriteStep]_vars

\* what does hold of the cycle that writes the marker: it did not observe the
\* primary healthy, it observed another region healthy, and the marker names
\* that region
C38_PlainStep ==
    MarkerWritten
    => /\ ~PrimaryObserved(hcObs', "healthy")
       /\ config_table'["active_region"].current_region = SECONDARY_REGION
       /\ \E i \in 1..Len(hcObs'.configs) :
             /\ hcObs'.configs[i].region_name = SECONDARY_REGION
             /\ hcObs'.configs[i].status = "healthy"
C38_MarkerFollowsOneCycle == [][C38_PlainStep]_vars

\* C39: after a cycle that ends with status success the marker, when the
\* table holds one, names the active_region the cycle reported; so it names
\* the primary once the primary is healthy again.
C39_MarkerNamesActiveRegion ==
    (Cycle /\ hcObs.status = "success" /\ "active_region" \in DOMAIN config_table)
    => config_table["active_region"].current_region = hcObs.active_region

\* C39 for the cycles that write the marker
C39_MarkerNamesActiveRegionWhenWritten ==
    (Cycle /\ hcObs.status = "success" /\ hcObs.failover_performed)
    => /\ "active_region" \in DOMAIN config_table
       /\ config_table["active_region"].current_region = hcObs.active_region

\* ------------------------------------------------ manager: the failover target
\* the regions of the manager before the step and after it
RegionsBefore == manager.config.regions
RegionsAfter == manager'.config.regions
\* region i may be switched to: it is not the current region and the
\* operator has it ACTIVE
Candidate(i) ==
    /\ RegionsBefore[i].region_name # manager.current_region
    /\ RegionsBefore[i].status = ACTIVE
\* region i was checked at the time of the search, with the given result
CheckedInSearch(i, health_status) ==
    /\ RegionsAfter[i].health_status = health_status
    /\ RegionsAfter[i].last_health_check = now'

\* C40: a perform_failover that changes current_region changes it to a
\* configured region that is not the current one, is ACTIVE, was found healthy
\* in that call and has the smallest priority among such regions (every
\* candidate of smaller priority was found unhealthy in that call); one that
\* returns None leaves current_region and last_failover_time as they were and,
\* unless it found the current region healthy, does not lower failure_count.
\* No call on the manager changes a region's name, status or priority.
C40_TargetStep ==
    /\ (FailoverCall /\ Switched)
       => \E i \in 1..Len(RegionsBefore) :
             /\ RegionsBefore[i].region_name = manager'.current_region
             /\ Candidate(i)
             /\ CheckedInSearch(i, "healthy")
             /\ \A j \in 1..Len(RegionsBefore) :
                   (Candidate(j) /\ RegionsBefore[j].priority < RegionsBefore[i].priority)
                   => CheckedInSearch(j, "unhealthy")
    /\ (FailoverCall /\ mgrObs'.ret = NoRegion)
       => /\ manager'.current_region = manager.current_region
          /\ manager'.last_failover_time = manager.last_failover_time
          /\ ~(manager.config.failover_enabled /\ mgrObs'.healthy)
             => manager'.failure_count >= manager.failure_count
    /\ ManagerCalled
       => /\ Len(RegionsAfter) = Len(RegionsBefore)
          /\ \A i \in 1..Len(RegionsBefore) :
                /\ RegionsAfter[i].region_name = RegionsBefore[i].region_name
                /\ RegionsAfter[i].status = RegionsBefore[i].status
                /\ RegionsAfter[i].priority = RegionsBefore[i].priority
C40_SwitchesToBestCandidate == [][C40_TargetStep]_vars

\* a failover from the primary has gone to the region of priority 3, the
\* ACTIVE region of priority 2 having been found unhealthy in the same call
C40_Witness ==
    /\ mgrObs.op = "perform_failover"
    /\ mgrObs.ret = "eu-west-1"
    /\ manager.current_region = "eu-west-1"
    /\ \E i \in 1..Len(manager.config.regions) :
          /\ manager.config.regions[i].region_name = "us-west-2"
          /\ manager.config.regions[i].status = ACTIVE
          /\ manager.config.regions[i].health_status = "unhealthy"
          /\ manager.config.regions[i].last_health_check = manager.last_failover_time

====
